---- MODULE Spec2Model ----
(***************************************************************************)
(* Order record and order fulfilment of the legacy backtesting library     *)
(* (abupy.TradeBu.ABuOrder.AbuOrder) together with the buy-factor adapter   *)
(* that builds order records from strategy signals                          *)
(* (crypto_quant_pro.core.strategies.abu_adapters.AbuBuyFactorAdapter).     *)
(*                                                                          *)
(* One order record is followed through its life.  Every call of            *)
(* fit_buy_order / fit_sell_order is one action that models the whole       *)
(* method, the calls to its collaborators (slippage class, position sizer,  *)
(* lot-unit lookups, sell factor predicate) included; what the              *)
(* collaborators answer is drawn from small sets.                           *)
(*                                                                          *)
(* Optional values: Python None is the empty tuple, a set value v is <<v>>. *)
(* Prices are integers, +inf / -inf are two integers outside the price      *)
(* range so that the code's comparisons (bp < inf, sell_price > buy_price)  *)
(* keep their meaning.  Quantities are fixed point, QScale units per 1.0,   *)
(* so that the crypto market's three decimal places are representable.      *)
(***************************************************************************)
EXTENDS Integers, Sequences, FiniteSets, TLC

----------------------------------------------------------------------------
(* Bounds *)

NumBars == 3
MaxPrice == 2
MaxLots == 1
MaxKeepDays == 1

----------------------------------------------------------------------------
(* Values *)

None == << >>

Some(v) == << v >>

Inf == 1000000000

NegInf == -1000000000

NaN == -999999999

QScale == 10000

Markets == {"US", "TC", "CN", "HK", "FUTURES_CN", "OPTIONS_US", "FUTURES_GLOBAL"}

UnknownMarket == "OTHER"

BuyTypes == {"call", "put"}

BarDate(i) == 20230101 + i

BarExists(i) == i >= 0 /\ i <= NumBars - 1

DayInds == 0 .. (NumBars - 1)

Prices == 1 .. MaxPrice

(* what a slippage class answers: a price, +inf for "do not buy" on the buy
   side, -inf for "cannot sell" on the sell side *)
BuySlippagePrices == Prices \cup {Inf}

SellSlippagePrices == Prices \cup {NegInf}

(* What the lot-unit lookups answer for the lane's symbol. *)
QueryUnit(market) ==
    CASE market = "HK" -> 5 * QScale
      [] market = "FUTURES_CN" -> 2 * QScale
      [] market = "FUTURES_GLOBAL" -> 5 * QScale

(* math.floor(bc) followed by int() *)
Floor(q) == (q \div QScale) * QScale

(* round(bc, 3): nearest multiple of 0.001, an exact tie to the even one;
   round(nan, 3) is nan *)
Round3(q) ==
    IF q = NaN THEN NaN
    ELSE LET u == QScale \div 1000
             r == q % u
             base == q - r
         IN  IF 2 * r < u THEN base
             ELSE IF 2 * r > u THEN base + u
             ELSE IF (base \div u) % 2 = 0 THEN base ELSE base + u

(* a fit_buy_order that ignores the +inf answer *)
BuySlippageVetoIgnored(bp) == FALSE

(* a fill on the signal bar itself *)
FillBarSameDay(day_ind) == day_ind

(* kl_pd.iloc[day_ind + 1]: the bar the trade is realised on *)
FillBar(day_ind) == day_ind + 1

(* an unknown market that is swallowed as one more silent veto *)
UnsupportedMarketSwallowed == "veto_market"

(* raise TypeError('ABuEnv.g_market_target ERROR, market={}, ...') *)
UnsupportedMarketResult == "raise_TypeError"

(* bp < np.inf fails: the slippage class decided not to buy *)
BuySlippageVeto(bp) == ~(bp < Inf)

(* a fit_buy_order that does not check the sizer's answer for nan *)
SizerVetoIgnored(bc) == FALSE

(* np.isnan(bc) *)
SizerVeto(bc) == bc = NaN

(* quantity before lot alignment *)
RoundQuantity(market, bc) ==
    IF market # "TC" THEN Floor(bc) ELSE Round3(bc)

MarketKnown(market) == market \in Markets

MinCnt(market) ==
    CASE market = "US" -> QScale
      [] market = "TC" -> QScale \div 100
      [] market = "CN" -> 100 * QScale
      [] market = "HK" -> QueryUnit(market)
      [] market = "FUTURES_CN" -> QueryUnit(market)
      [] market = "OPTIONS_US" -> 100 * QScale
      [] market = "FUTURES_GLOBAL" -> QueryUnit(market)

(* a lot rounding that stops at the floor *)
AlignLotSkipped(market, cnt) == cnt

(* buy_cnt -= buy_cnt % min_cnt, in the markets that trade whole lots *)
AlignLot(market, cnt) ==
    IF market \in {"US", "TC"} THEN cnt ELSE cnt - (cnt % MinCnt(market))

(* buy_cnt < min_cnt; a nan compares False *)
BelowMinLot(cnt, min_cnt) == cnt # NaN /\ cnt < min_cnt

(* the quantities the position sizer is taken to answer in a market: nan, a
   negative one, and quantities on and just below the lot boundaries; in the
   crypto market also quantities just below and above a third decimal place *)
RawQuantities(market) ==
    LET u == IF MarketKnown(market) THEN MinCnt(market) ELSE QScale
        fracs == IF market = "TC" THEN {0, 4, 6, u - 1} ELSE {0, u - 1}
    IN  {NaN, -(QScale \div 2)} \cup
        { l * u + f : l \in 0 .. MaxLots, f \in fracs }

(* BuyCallMixin / BuyPutMixin *)
ExpectDirection(buy_type) == IF buy_type = "call" THEN 1 ELSE -1

----------------------------------------------------------------------------
(* AbuOrder.__init__ *)

EmptyOrder ==
    [ order_deal       |-> FALSE,
      buy_symbol       |-> None,
      buy_date         |-> None,
      buy_factor       |-> None,
      buy_factor_class |-> None,
      buy_price        |-> None,
      buy_cnt          |-> None,
      buy_pos          |-> None,
      sell_date        |-> None,
      buy_type_str     |-> None,
      expect_direction |-> None,
      sell_type        |-> "keep",
      keep_days        |-> 0,
      sell_price       |-> None,
      sell_type_extra  |-> "",
      ml_features      |-> None ]

BuyFields ==
    {"buy_symbol", "buy_date", "buy_factor", "buy_factor_class", "buy_price",
     "buy_cnt", "buy_pos", "buy_type_str", "expect_direction"}

(* env: the lane's configuration (market, type of the buy factor)
   order: the order record
   op: the last call, the answers of the collaborators it consulted and
       its outcome
   calls: the collaborators the last call invoked, in order
   trail: "buy_veto_inf" once a +inf slippage answer has left the record
          unfilled, kept until the call after the one that fills it;
          "sell_veto_neginf" once a -inf slippage answer has left the open
          record unsold, kept until the call after the one that sells it *)
VARIABLES env, order, op, calls, trail

(* EventDispatcher: handlers and async_handlers map an event type to its
   list of handlers, running and event_queue are the dispatcher's fields;
   processed is the event the dispatcher handled last and invoked the
   handlers it called for it, in order *)
VARIABLES handlers, async_handlers, running, event_queue, processed, invoked,
          dispatch

(* PaperTradingEngine: paper holds the engine's configuration and account,
   paper_tasks the execute_order calls suspended at their execution delay,
   paper_op the last call made on the engine and what it did *)
VARIABLES paper, paper_tasks, paper_op

(* TradingEngine: trading holds the engine's configuration, the Order
   objects it created (objs), its orders dictionary from id to object and
   its positions, with the symbols of the positions dictionary in the order
   it holds them (position_keys); clock is the millisecond an Order id is
   taken from, trading_tasks the place_order calls suspended in their
   execution, trading_stopping the stop call suspended in the execution of
   a closing order and trading_op the last call made on the engine *)
VARIABLES trading, clock, trading_tasks, trading_stopping, trading_op

(* BacktestingEngine: backtest holds the engine's account, its trades, the
   day the run_backtest loop stands at and the result it returned;
   backtest_op is the last call made on the engine *)
VARIABLES backtest, backtest_op

(* StopLossManager: stops holds the manager's configuration and its
   stop_loss_levels; stops_op is the last call made on the manager *)
VARIABLES stops, stops_op

(* TrailingStopStrategy: strategy holds the strategy's fields, among them
   _trailing_stops; strategy_last is, for each symbol, the level tracked
   last since the symbol entered the positions passed in, and strategy_op
   the last call made on the strategy *)
VARIABLES strategy, strategy_last, strategy_op

(* PositionManager: manager holds the configuration and the positions
   dictionary; manager_op is the last call made on the manager and what it
   returned *)
VARIABLES manager, manager_op

(* StrategyRegistry: registry holds the class attributes _strategies and
   _instances; registry_op is the last call made on the registry, what it
   returned and what it raised *)
VARIABLES registry, registry_op

lane_vars == << env, order, op, calls, trail >>

trading_vars == << trading, clock, trading_tasks, trading_stopping, trading_op >>

paper_vars == << paper, paper_tasks, paper_op >>

dispatcher_vars ==
    << handlers, async_handlers, running, event_queue, processed, invoked,
       dispatch >>

backtest_vars == << backtest, backtest_op >>

stops_vars == << stops, stops_op >>

strategy_vars == << strategy, strategy_last, strategy_op >>

manager_vars == << manager, manager_op >>

registry_vars == << registry, registry_op >>

vars == << lane_vars, dispatcher_vars, paper_vars, trading_vars,
    backtest_vars,
    stops_vars,
    strategy_vars,
    manager_vars,
    registry_vars >>

(* what the actions of one component leave alone *)
outside_lane == << dispatcher_vars, paper_vars, trading_vars,
    backtest_vars,
    stops_vars,
    strategy_vars,
    manager_vars,
    registry_vars >>

outside_dispatcher == << lane_vars, paper_vars, trading_vars,
    backtest_vars,
    stops_vars,
    strategy_vars,
    manager_vars,
    registry_vars >>

outside_paper == << lane_vars, dispatcher_vars, trading_vars,
    backtest_vars,
    stops_vars,
    strategy_vars,
    manager_vars,
    registry_vars >>

outside_trading == << lane_vars, dispatcher_vars,
    backtest_vars,
    stops_vars,
    strategy_vars,
    manager_vars,
    registry_vars >>

outside_backtest ==
    << lane_vars, dispatcher_vars, paper_vars, trading_vars,
    stops_vars,
    strategy_vars,
    manager_vars,
    registry_vars >>

outside_stops ==
    << lane_vars, trading_vars, paper_vars, dispatcher_vars, backtest_vars,
    strategy_vars,
    manager_vars,
    registry_vars >>

outside_strategy ==
    << lane_vars, trading_vars, paper_vars, dispatcher_vars, backtest_vars, stops_vars,
    manager_vars,
    registry_vars >>

outside_manager ==
    << lane_vars, trading_vars, paper_vars, dispatcher_vars, backtest_vars, stops_vars, strategy_vars,
    registry_vars >>

outside_registry ==
    << lane_vars, trading_vars, paper_vars, dispatcher_vars, backtest_vars, stops_vars, strategy_vars, manager_vars >>

Trim(tr, o) ==
    tr \ ( (IF o.order_deal THEN {"buy_veto_inf"} ELSE {}) \cup
           (IF o.sell_type # "keep" \/ ~o.order_deal
            THEN {"sell_veto_neginf"} ELSE {}) )

Call(name, result) ==
    [ name |-> name, result |-> result, day_ind |-> None, bar |-> None,
      bp |-> None, bc |-> None, cnt |-> None, market |-> None,
      answer |-> None, sp |-> None ]

(* ------------------------------------------------------------------ *)
(* Bounds and values of the event dispatcher *)

MaxHandlers == 2
MaxPriority == 2
MaxQueue == 1

EventTypes == {"ticker_update"}

SystemEvents == {"engine_started", "engine_stopped"}

(* the callbacks that raise an exception when they run *)
RaisingCallbacks == {"callback_raises"}

Callbacks == {"callback_a", "callback_b"} \cup RaisingCallbacks

Priorities == 1 .. MaxPriority

(* EventDispatcher.__init__ *)
DispatcherInit ==
    /\ handlers = [ t \in EventTypes \cup SystemEvents |-> << >> ]
    /\ async_handlers = [ t \in EventTypes \cup SystemEvents |-> << >> ]
    /\ running = FALSE
    /\ event_queue = << >>
    /\ processed = None
    /\ invoked = << >>
    /\ dispatch = [ via |-> "init", subscribed |-> << >>, raised |-> None,
                    loop_ended |-> FALSE ]

(* ------------------------------------------------------------------ *)
(* Bounds and values of the paper trading engine *)

MaxQuantity == 2
MaxTicks == 2
MaxOrders == 3
MaxTasks == 2

(* amounts of money are counted in units of 1/MScale *)
MScale == 100000

(* the prices orders and tickers carry *)
PriceStep == 400

EnginePrices == { k * PriceStep * MScale : k \in 1 .. MaxTicks }

OrderQuantities == 0 .. MaxQuantity

Sides == {"buy", "sell"}

(* PaperTradingConfig: the default configuration and the one of the tests,
   slippage in 1/10000, commission in 1/1000, max_position_size in 1/100 *)
DefaultPaperConfig ==
    [ initial_balance |-> 10000 * MScale, max_position_size |-> 10,
      commission |-> 1, slippage |-> 5 ]

PaperConfigs ==
    { DefaultPaperConfig,
      [ initial_balance |-> 2000 * MScale, max_position_size |-> 100,
        commission |-> 1, slippage |-> 0 ] }

PaperCall(name, result) ==
    [ name |-> name, result |-> result, order |-> None, fill_price |-> None,
      events |-> << >> ]

(* PaperTradingEngine.__init__ with a given configuration *)
PaperEngine(config) ==
    [ config |-> config,
      balance |-> config.initial_balance,
      available_balance |-> config.initial_balance,
      total_pnl |-> 0,
      unrealized_pnl |-> 0,
      daily_pnl |-> 0,
      position |-> None,
      order_history |-> 0 ]

PaperInit ==
    /\ paper = PaperEngine(DefaultPaperConfig)
    /\ paper_tasks = << >>
    /\ paper_op = PaperCall("init", "constructed")

(* ------------------------------------------------------------------ *)
(* Bounds and values of the trading engine *)

MaxClock == 2
MaxPlaced == 2

Symbols == {"BTC/USD", "ETH/USD"}

(* the symbol the paper trading engine is followed on *)
PaperSymbol == "BTC/USD"

(* the symbols place_order is called with: every symbol in live trading,
   the paper engine's symbol in paper trading *)
PlacedSymbols(config) ==
    IF config.paper_trading THEN {PaperSymbol} ELSE Symbols

InvalidSide == "hold"

UnknownOrderId == 0

OrderIds == 1 .. MaxClock

(* the quantities and prices place_order is called with *)
PlacedQuantities == {0, 1}

PlacedPrices == { Some(PriceStep * MScale), None }

(* TradingConfig: the default configuration, live trading, and live trading
   with room for one open position; order sizes in units of 1/MScale *)
DefaultTradingConfig ==
    [ paper_trading |-> TRUE, max_open_positions |-> 5,
      min_order_size |-> 10 * MScale, max_order_size |-> 10000 * MScale ]

TradingConfigs ==
    { DefaultTradingConfig,
      [ DefaultTradingConfig EXCEPT !.paper_trading = FALSE ],
      [ DefaultTradingConfig EXCEPT !.paper_trading = FALSE,
                                    !.max_open_positions = 1 ] }

TradingCall(name, result) ==
    [ name |-> name, result |-> result, returned |-> None,
      order_id |-> None, executed |-> None, events |-> << >> ]

(* TradingEngine.__init__ with a given configuration *)
TradingEngine(config) ==
    [ config |-> config,
      running |-> FALSE,
      objs |-> << >>,
      orders |-> [ id \in OrderIds |-> None ],
      positions |-> [ sym \in Symbols |-> None ],
      position_keys |-> << >> ]

TradingInit ==
    /\ trading = TradingEngine(DefaultTradingConfig)
    /\ clock = 1
    /\ trading_tasks = {}
    /\ trading_stopping = None
    /\ trading_op = TradingCall("init", "constructed")

(* ------------------------------------------------------------------ *)
(* Bounds and values of the backtesting engine *)

MaxDays == 2
MaxTrades == 2

(* the days of the backtest, config.start_date being day 0 *)
EndDay == MaxDays

(* the close of the historical data on a day *)
ClosePrice(day) == (day + 1) * 100 * MScale

(* BacktestConfig: the default capital and rates, commission in 1/1000,
   slippage in 1/10000 *)
DefaultBacktestConfig ==
    [ initial_capital |-> 10000 * MScale, commission |-> 1, slippage |-> 5 ]

(* the configurations backtests are run with *)
BacktestConfigs ==
    { DefaultBacktestConfig,
      [ DefaultBacktestConfig EXCEPT !.initial_capital = 500 * MScale ] }

BacktestCall(name, result) == [ name |-> name, result |-> result ]

(* the Timeframe enumeration (data/feeds/market_data_feed.py) *)
Timeframes ==
    {"tick", "1m", "5m", "15m", "30m", "1h", "4h", "1d", "1w", "1M"}

(* BacktestingEngine.__init__; timeframe is the argument of run_backtest,
   by default DAY_1 *)
BacktestEngine(config) ==
    [ config |-> config,
      timeframe |-> "1d",
      date |-> 0,
      current_date |-> 0,
      cash |-> config.initial_capital,
      portfolio_value |-> config.initial_capital,
      position |-> None,
      trades |-> << >>,
      result |-> None ]

BacktestInit ==
    /\ backtest = BacktestEngine(DefaultBacktestConfig)
    /\ backtest_op = BacktestCall("init", "constructed")

(* ------------------------------------------------------------------ *)
(* Bounds and values of the stop loss manager *)

MaxStopPrice == 3

(* the entry and current prices stop losses are computed from *)
StopPrices == { k * 100 * MScale : k \in 1 .. MaxStopPrice }

(* the ATR values passed in: none, or 10 *)
AtrValues == { None, Some(10 * MScale) }

(* StopLossConfig: the default values, stop_loss_value and trailing_percent
   in units of 1/MScale, with each stop loss type; an absolute stop level
   of 90; stop losses disabled *)
DefaultStopLossConfig ==
    [ stop_loss_type |-> "percentage", stop_loss_value |-> MScale \div 20,
      atr_multiplier |-> 2, trailing_percent |-> MScale \div 20,
      enable_stop_loss |-> TRUE ]

StopLossConfigs ==
    { [ DefaultStopLossConfig EXCEPT !.stop_loss_type = t ] :
        t \in {"percentage", "atr", "trailing"} }
    \cup { [ DefaultStopLossConfig EXCEPT !.stop_loss_type = "absolute",
                                         !.stop_loss_value = 90 * MScale ],
           [ DefaultStopLossConfig EXCEPT !.stop_loss_type = "trailing",
                                         !.enable_stop_loss = FALSE ] }

StopCall(name, symbol, current_price, returned) ==
    [ name |-> name, symbol |-> symbol, current_price |-> current_price,
      returned |-> returned ]

(* StopLossManager.__init__ *)
StopLossManager(config) ==
    [ config |-> config, stop_loss_levels |-> [ sym \in Symbols |-> None ] ]

StopsInit ==
    /\ stops = StopLossManager(DefaultStopLossConfig)
    /\ stops_op = StopCall("init", None, None, None)

(* ------------------------------------------------------------------ *)
(* Values of the trailing stop strategy *)

(* a position passed to generate_signals: entry_price and quantity, zero
   among them *)
StrategyPositions ==
    [ entry_price : {0} \cup StopPrices, quantity : {0, 1} ]

StrategyCall(name, symbol, in_positions, signals) ==
    [ name |-> name, symbol |-> symbol, in_positions |-> in_positions,
      signals |-> signals ]

(* TrailingStopStrategy.__init__, and BaseStrategy.enabled *)
TrailingStopStrategy(enabled) ==
    [ enabled |-> enabled, trailing_pct |-> MScale \div 20,
      trailing_stops |-> [ sym \in Symbols |-> None ] ]

StrategyInit ==
    /\ strategy = TrailingStopStrategy(TRUE)
    /\ strategy_last = [ sym \in Symbols |-> None ]
    /\ strategy_op = StrategyCall("init", None, FALSE, << >>)

(* ------------------------------------------------------------------ *)
(* Values of the position manager *)

(* PositionConfig: the default configuration, and room for one position *)
DefaultPositionConfig == [ max_open_positions |-> 5 ]

PositionConfigs ==
    { DefaultPositionConfig,
      [ DefaultPositionConfig EXCEPT !.max_open_positions = 1 ] }

(* the Position objects add_position is called with *)
ManagedPositions ==
    { [ quantity |-> q, entry_price |-> p, current_price |-> p,
        market_value |-> q * p, unrealized_pnl |-> 0 ] :
        q \in {0, 1}, p \in {PriceStep * MScale} }

ManagerCall(name, symbol, returned) ==
    [ name |-> name, symbol |-> symbol, returned |-> returned ]

(* PositionManager.__init__ *)
PositionManager(config) ==
    [ config |-> config, positions |-> [ sym \in Symbols |-> None ] ]

ManagerInit ==
    /\ manager = PositionManager(DefaultPositionConfig)
    /\ manager_op = ManagerCall("init", None, None)

(* ------------------------------------------------------------------ *)
(* Values of the strategy registry *)

(* the strategy classes that are registered, by __name__ *)
StrategyClasses == { "MockStrategyForRegistry", "MyStrategy" }

(* names as sequences of the parts that "_" joins, so that str.startswith
   can be computed: "custom" is <<"custom">>, "custom_name" is
   <<"custom", "name">> *)
GivenNames == { << "custom" >>, << "custom", "name" >> }

RegistryNames == GivenNames \cup { << c >> : c \in StrategyClasses }

(* the keyword arguments of get: none, or one parameter *)
RegistryKwargs == { {}, { << "period", 5 >> } }

(* hash(frozenset(kwargs.items())), as a part of the cache key *)
KwargsHash(kwargs) == IF kwargs = {} THEN "hash_empty" ELSE "hash_period"

(* f"{name}_{hash(frozenset(kwargs.items()))}" *)
CacheKey(name, kwargs) == Append(name, KwargsHash(kwargs))

CacheKeys == { CacheKey(n, k) : n \in RegistryNames, k \in RegistryKwargs }

(* key.startswith(f"{name}_") *)
StartsWith(key, name) ==
    /\ Len(key) > Len(name)
    /\ SubSeq(key, 1, Len(name)) = name

(* strategy_class(name=name, **kwargs) *)
StrategyInstance(class, name, kwargs) ==
    [ class |-> class, name |-> name, kwargs |-> kwargs ]

RegistryCall(name, key, returned, raised) ==
    [ name |-> name, strategy |-> key, returned |-> returned,
      raised |-> raised ]

(* the class attributes of StrategyRegistry *)
RegistryInit ==
    /\ registry = [ _strategies |-> [ n \in RegistryNames |-> None ],
                    _instances |-> [ k \in CacheKeys |-> None ] ]
    /\ registry_op = RegistryCall("init", None, None, None)

(* the lane of the order record while another component is followed *)
LaneIdle ==
    /\ env = [ market |-> "US", buy_type |-> "call" ]
    /\ order = EmptyOrder
    /\ op = Call("init", "constructed")
    /\ calls = << >>
    /\ trail = {}

Init ==
    /\ env \in [ market : Markets \cup {UnknownMarket}, buy_type : BuyTypes ]
    /\ order = EmptyOrder
    /\ op = Call("init", "constructed")
    /\ calls = << >>
    /\ trail = {}
    /\ DispatcherInit
    /\ PaperInit
    /\ TradingInit
    /\ BacktestInit
    /\ StopsInit
    /\ StrategyInit
    /\ ManagerInit
    /\ RegistryInit

(* AbuOrder(): the lane starts on a fresh record *)
NewOrder ==
    /\ order' = EmptyOrder
    /\ op' = Call("init", "constructed")
    /\ calls' = << >>
    /\ trail' = {}
    /\ UNCHANGED << env, outside_lane >>

(* the factor objects carry factor_name and sell_type_extra *)
FactorName == "factor"

(* lines 198-233: the buy-side fields, the reset of the sell side, order_deal *)
FilledOrder(o, day_ind, bp, cnt) ==
    [ o EXCEPT !.buy_symbol       = Some("SYM"),
               !.buy_date         = Some(BarDate(FillBar(day_ind))),
               !.buy_factor       = Some(FactorName),
               !.buy_factor_class = Some("BuyFactor"),
               !.buy_price        = Some(bp),
               !.buy_cnt          = Some(cnt),
               !.buy_pos          = Some("Position"),
               !.buy_type_str     = Some(env.buy_type),
               !.expect_direction = Some(ExpectDirection(env.buy_type)),
               !.sell_date        = None,
               !.sell_type        = "keep",
               !.keep_days        = 0,
               !.sell_price       = None,
               !.sell_type_extra  = "",
               !.ml_features      = None,
               !.order_deal       = TRUE ]

BuyOutcome(result, day_ind, bp, bc, cnt, o, cs, tr) ==
    /\ op' = [ Call("fit_buy_order", result) EXCEPT
                 !.day_ind = day_ind, !.bp = bp, !.bc = bc, !.cnt = cnt,
                 !.bar = IF result = "filled"
                         THEN Some(FillBar(day_ind[1])) ELSE None,
                 !.market = IF result = UnsupportedMarketResult
                            THEN Some(env.market) ELSE None ]
    /\ order' = o
    /\ calls' = cs
    /\ trail' = Trim(trail, order) \cup tr
    /\ UNCHANGED << env, outside_lane >>

(* AbuOrder.fit_buy_order(day_ind, factor_object).  op keeps the answer that
   decided the outcome; a fill keeps all of them. *)
FitBuyOrder ==
    \E day_ind \in DayInds :
        IF ~BarExists(FillBar(day_ind))
        THEN BuyOutcome("raise_IndexError", Some(day_ind), None, None, None,
                        order, << "iloc" >>, {})
        ELSE \E bp \in BuySlippagePrices :
            IF BuySlippageVeto(bp)
            THEN BuyOutcome("veto_slippage", None, Some(bp), None, None, order,
                            << "iloc", "slippage" >>,
                            IF order.order_deal THEN {} ELSE {"buy_veto_inf"})
            ELSE \E bc \in RawQuantities(env.market) :
                LET sized == << "iloc", "slippage", "position", "fit_position" >>
                    market == env.market
                IN
                IF SizerVeto(bc)
                THEN BuyOutcome("veto_sizer", None, None, Some(bc), None,
                                order, sized, {})
                ELSE IF market # "TC" /\ bc = NaN
                THEN BuyOutcome("raise_ValueError", None, None, Some(bc),
                                None, order, sized, {})
                ELSE IF ~MarketKnown(market)
                THEN BuyOutcome(UnsupportedMarketResult, None, None, None,
                                None, order, sized, {})
                ELSE
                    LET cnt == AlignLot(market, RoundQuantity(market, bc))
                        cs == IF market \in {"HK", "FUTURES_CN", "FUTURES_GLOBAL"}
                              THEN Append(sized, "query_unit") ELSE sized
                    IN  IF BelowMinLot(cnt, MinCnt(market))
                        THEN BuyOutcome("veto_min_lot", None, None, None,
                                        Some(cnt), order, cs, {})
                        ELSE BuyOutcome("filled", Some(day_ind), Some(bp), Some(bc),
                                        Some(cnt),
                                        FilledOrder(order, day_ind, bp, cnt),
                                        cs, {})

----------------------------------------------------------------------------
(* AbuOrder.fit_sell_order *)

(* a fit_sell_order that goes on to sell whatever the sell factor answers *)
SellFactorIgnored(answer) == TRUE

(* if factor_object.make_sell_order(self, day_ind) *)
SellFactorSays(answer) == answer

(* a fit_sell_order without the filter of sold records *)
SellShortCircuitMissing(o) == FALSE

(* self.sell_type != 'keep': the record is already sold *)
SellShortCircuit(o) == o.sell_type # "keep"

(* a fit_sell_order that ignores the -inf answer *)
SellSlippageVetoIgnored(sp) == FALSE

(* sell_price == -np.inf: cannot sell, e.g. limit down *)
SellSlippageVeto(sp) == sp = NegInf

(* a classification that counts a flat call exit as a win *)
SellTypeFlatCallWins(buy_type_str, sell_price, buy_price) ==
    IF buy_type_str = Some("call")
    THEN (IF sell_price >= buy_price THEN "win" ELSE "loss")
    ELSE (IF sell_price > buy_price THEN "loss" ELSE "win")

(* the two conditional expressions of lines 270-275 *)
SellType(buy_type_str, sell_price, buy_price) ==
    IF buy_type_str = Some("call")
    THEN (IF sell_price > buy_price THEN "win" ELSE "loss")
    ELSE (IF sell_price > buy_price THEN "loss" ELSE "win")

(* sell_price > buy_price raises TypeError when buy_price is None *)
CompareRaises(o) == o.buy_price = None

SellTypeExtra == "extra"

SellOutcome(result, day_ind, answer, sp, o, cs, tr) ==
    /\ op' = [ Call("fit_sell_order", result) EXCEPT
                 !.day_ind = day_ind, !.answer = answer, !.sp = sp,
                 !.bar = IF result = "closed"
                         THEN Some(FillBar(day_ind[1])) ELSE None ]
    /\ order' = o
    /\ calls' = cs
    /\ trail' = Trim(trail, order) \cup tr
    /\ UNCHANGED << env, outside_lane >>

FitSellOrder ==
    IF SellShortCircuit(order)
    THEN SellOutcome("skip_closed", None, None, None, order, << >>, {})
    ELSE \E answer \in BOOLEAN :
        LET o1 == order IN
        IF ~SellFactorSays(answer)
        THEN SellOutcome("keep", None, Some(answer), None, o1,
                         << "make_sell_order" >>, {})
        ELSE \E day_ind \in DayInds :
            IF ~BarExists(FillBar(day_ind))
            THEN SellOutcome("raise_IndexError", Some(day_ind), Some(answer), None,
                             o1, << "make_sell_order", "iloc" >>, {})
            ELSE \E sp \in SellSlippagePrices :
                LET cs == << "make_sell_order", "iloc", "slippage" >> IN
                IF SellSlippageVeto(sp)
                THEN SellOutcome("veto_slippage", None, Some(answer), Some(sp),
                                 o1, cs,
                                 IF order.order_deal
                                 THEN {"sell_veto_neginf"} ELSE {})
                ELSE
                    LET o2 == [ o1 EXCEPT !.sell_price = Some(sp),
                                          !.sell_type_extra = SellTypeExtra ]
                    IN  IF CompareRaises(o2)
                        THEN SellOutcome("raise_TypeError", Some(day_ind),
                                         Some(answer), Some(sp), o2, cs, {})
                        ELSE SellOutcome("closed", Some(day_ind), Some(answer),
                                 Some(sp),
                                 [ o2 EXCEPT
                                     !.sell_type = SellType(o2.buy_type_str, sp,
                                                            o2.buy_price[1]),
                                     !.sell_date = Some(BarDate(FillBar(day_ind))) ],
                                 cs, {})

----------------------------------------------------------------------------
(* AbuBuyFactorAdapter._signal_to_order *)

SignalQuantities == {0} \cup { (k * QScale) \div 2 : k \in 1 .. MaxLots }

(* a signal price or quantity of 0 stands for every falsy value (None, 0) *)
SignalOrder(today_ind, sig_price, sig_quantity, close) ==
    [ EmptyOrder EXCEPT
        !.buy_symbol       = Some("SYM"),
        !.buy_date         = Some(today_ind + 1),
        !.buy_factor       = Some("strategy"),
        !.buy_factor_class = Some("Strategy"),
        !.buy_price        = Some(IF sig_price # 0 THEN sig_price ELSE close),
        !.buy_cnt          = Some(IF sig_quantity # 0 THEN sig_quantity ELSE 0),
        !.buy_type_str     = Some(env.buy_type),
        !.expect_direction = Some(ExpectDirection(env.buy_type)),
        !.order_deal       = TRUE ]

(* The adapter builds its record where the lane starts a record. *)
SignalToOrder ==
    \E today_ind \in { i \in DayInds : BarExists(i + 1) },
       sig_price \in {0} \cup Prices, sig_quantity \in SignalQuantities :
      \E close \in IF sig_price = 0 THEN Prices ELSE {1} :
        /\ op.name = "init"
        /\ order' = SignalOrder(today_ind, sig_price, sig_quantity, close)
        /\ op' = Call("_signal_to_order", "built")
        /\ calls' = << >>
        /\ trail' = {}
        /\ UNCHANGED << env, outside_lane >>

----------------------------------------------------------------------------
(* the caller's day loop counts the days an open order is held *)
DayStep ==
    /\ order.order_deal
    /\ order.sell_type = "keep"
    /\ order.keep_days < MaxKeepDays
    /\ order' = [ order EXCEPT !.keep_days = @ + 1 ]
    /\ op' = Call("day_step", "held")
    /\ calls' = << >>
    /\ trail' = Trim(trail, order)
    /\ UNCHANGED << env, outside_lane >>

Next ==
    \/ NewOrder
    \/ FitBuyOrder
    \/ FitSellOrder
    \/ SignalToOrder
    \/ DayStep

Spec == Init /\ [][Next]_vars

----------------------------------------------------------------------------
(* EventDispatcher *)

(* list.sort(key=lambda h: h.priority, reverse=True) is stable: a handler
   goes behind every handler whose priority is at least its own *)
InsertByPriority(h, sorted) ==
    LET ahead == { i \in 1 .. Len(sorted) : sorted[i].priority >= h.priority }
        k == IF ahead = {} THEN 0
             ELSE CHOOSE i \in ahead : \A j \in ahead : j <= i
    IN  SubSeq(sorted, 1, k) \o << h >> \o SubSeq(sorted, k + 1, Len(sorted))

RECURSIVE SortedPrefix(_, _)
SortedPrefix(list, n) ==
    IF n = 0 THEN << >>
    ELSE InsertByPriority(list[n], SortedPrefix(list, n - 1))

(* a subscribe that forgets to sort *)
SortSkipped(list) == list

SortByPriority(list) == SortedPrefix(list, Len(list))

HandlerCount ==
    LET types == EventTypes \cup SystemEvents
        total[S \in SUBSET types] ==
            IF S = {} THEN 0
            ELSE LET t == CHOOSE x \in S : TRUE
                 IN  Len(handlers[t]) + Len(async_handlers[t]) + total[S \ {t}]
    IN  total[types]

(* EventDispatcher.subscribe(event_type, callback, priority) *)
Subscribe ==
    \E t \in EventTypes, cb \in Callbacks, pr \in Priorities :
        /\ HandlerCount < MaxHandlers
        /\ handlers' = [ handlers EXCEPT ![t] =
               SortByPriority(Append(@, [ callback |-> cb, priority |-> pr,
                                           kind |-> "sync" ])) ]
        /\ UNCHANGED << async_handlers, running, event_queue, processed,
                        invoked, dispatch, outside_dispatcher >>

(* EventDispatcher.subscribe_async(event_type, callback, priority) *)
SubscribeAsync ==
    \E t \in EventTypes, cb \in Callbacks, pr \in Priorities :
        /\ HandlerCount < MaxHandlers
        /\ async_handlers' = [ async_handlers EXCEPT ![t] =
               SortByPriority(Append(@, [ callback |-> cb, priority |-> pr,
                                           kind |-> "async" ])) ]
        /\ UNCHANGED << handlers, running, event_queue, processed,
                        invoked, dispatch, outside_dispatcher >>

(* EventDispatcher.unsubscribe(event_type, callback) *)
Unsubscribe ==
    \E t \in EventTypes, cb \in Callbacks :
        /\ handlers[t] # << >>
        /\ handlers' = [ handlers EXCEPT ![t] =
               SelectSeq(@, LAMBDA h : h.callback # cb) ]
        /\ UNCHANGED << async_handlers, running, event_queue, processed,
                        invoked, dispatch, outside_dispatcher >>

(* EventDispatcher._process_event and _process_event_async: the handlers of
   the event's type, the synchronous ones first *)
HandlersCalled(t) == handlers[t] \o async_handlers[t]

(* what a callback raises when handler(event) calls it; a coroutine
   function only raises once its coroutine is awaited *)
CallbackRaised(h) ==
    IF h.kind = "sync" /\ h.callback \in RaisingCallbacks
    THEN Some("Exception") ELSE None

AwaitRaised(h) ==
    IF h.kind = "async" /\ h.callback \in RaisingCallbacks
    THEN Some("Exception") ELSE None

(* a handler that lets the exception of its callback through *)
EventHandlerCallUncaught(h) == CallbackRaised(h)

(* EventHandler.__call__: the exception that leaves handler(event); the
   exception of the callback is caught, logged and None is returned *)
EventHandlerCall(h) ==
    IF CallbackRaised(h) # None THEN None ELSE None

(* for handler in list: handler(event), the result awaited or not, the call
   inside try / except Exception or not; the walk ends at the first
   exception that is not caught *)
RECURSIVE CallHandlers(_, _, _)
CallHandlers(list, guarded, awaited) ==
    IF list = << >> THEN [ invoked |-> << >>, raised |-> None ]
    ELSE LET h == Head(list)
             error == IF EventHandlerCall(h) # None THEN EventHandlerCall(h)
                      ELSE IF awaited THEN AwaitRaised(h)
                      ELSE None
             rest == CallHandlers(Tail(list), guarded, awaited)
         IN  IF error # None /\ ~guarded
             THEN [ invoked |-> << h >>, raised |-> error ]
             ELSE [ invoked |-> << h >> \o rest.invoked,
                    raised |-> rest.raised ]

(* the synchronous handlers, then the asynchronous ones unless an exception
   has left the first walk *)
Walks(first, second) ==
    IF first.raised # None THEN first
    ELSE [ invoked |-> first.invoked \o second.invoked,
           raised |-> second.raised ]

(* EventDispatcher._process_event(event), reached through via *)
ProcessEvent(t, via) ==
    LET done == Walks(CallHandlers(handlers[t], TRUE, FALSE),
                      CallHandlers(async_handlers[t], TRUE, FALSE))
    IN  /\ processed' = Some(t)
        /\ invoked' = done.invoked
        /\ dispatch' = [ dispatch EXCEPT !.via = via,
               !.subscribed = HandlersCalled(t), !.raised = done.raised ]

(* EventDispatcher._process_event_async(event) inside the try of
   _process_events: an Exception that leaves it is logged and the loop
   continues *)
ProcessEventAsync(t) ==
    LET done == Walks(CallHandlers(handlers[t], FALSE, FALSE),
                      CallHandlers(async_handlers[t], TRUE, TRUE))
    IN  /\ processed' = Some(t)
        /\ invoked' = done.invoked
        /\ dispatch' = [ dispatch EXCEPT !.via = "loop",
               !.subscribed = HandlersCalled(t), !.raised = None,
               !.loop_ended = FALSE ]

(* EventDispatcher.publish(event) *)
Publish ==
    \E t \in EventTypes :
        IF running
        THEN /\ Len(event_queue) < MaxQueue
             /\ event_queue' = Append(event_queue, t)
             /\ UNCHANGED << handlers, async_handlers, running, processed,
                             invoked, dispatch, outside_dispatcher >>
        ELSE /\ ProcessEvent(t, "publish")
             /\ UNCHANGED << handlers, async_handlers, running, event_queue,
                             outside_dispatcher >>

(* EventDispatcher.start() *)
Start ==
    /\ ~running
    /\ running' = TRUE
    /\ event_queue' = << "engine_started" >>
    /\ dispatch' = [ dispatch EXCEPT !.loop_ended = FALSE ]
    /\ UNCHANGED << handlers, async_handlers, processed, invoked,
                    outside_dispatcher >>

(* EventDispatcher.stop() *)
Stop ==
    /\ running
    /\ running' = FALSE
    /\ ProcessEvent("engine_stopped", "stop")
    /\ UNCHANGED << handlers, async_handlers, event_queue, outside_dispatcher >>

(* one turn of EventDispatcher._process_events *)
ProcessQueued ==
    /\ running
    /\ ~dispatch.loop_ended
    /\ event_queue # << >>
    /\ event_queue' = Tail(event_queue)
    /\ ProcessEventAsync(Head(event_queue))
    /\ UNCHANGED << handlers, async_handlers, running, outside_dispatcher >>

DispatcherSpecInit ==
    /\ LaneIdle
    /\ DispatcherInit
    /\ PaperInit
    /\ TradingInit
    /\ BacktestInit
    /\ StopsInit
    /\ StrategyInit
    /\ ManagerInit
    /\ RegistryInit

DispatcherNext ==
    \/ Subscribe
    \/ SubscribeAsync
    \/ Unsubscribe
    \/ Publish
    \/ Start
    \/ Stop
    \/ ProcessQueued

DispatcherSpec == DispatcherSpecInit /\ [][DispatcherNext]_vars

(* the task start() creates runs _process_events for as long as the
   dispatcher is running: a queued event is taken up unless stop() comes
   first *)
DispatcherLiveSpec == DispatcherSpec /\ WF_vars(ProcessQueued)

----------------------------------------------------------------------------
(* Properties *)

Closed(o) == o.sell_type \in {"win", "loss"}

Open(o) == o.order_deal /\ o.sell_type = "keep"

BuySideUnset(o) == \A f \in BuyFields : o[f] = None

BuySideSet(o) == \A f \in BuyFields : o[f] # None

SellSideTouched(o) ==
    o.sell_price # None \/ o.sell_date # None \/ o.sell_type # "keep"

(* C1: fit_sell_order on an order whose sell_type is already 'win' or 'loss'
   changes no field of the order and invokes no collaborator (neither the
   sell factor's make_sell_order nor the slippage class). *)
C1_SellOnClosedIsNoOp ==
    [][ (op'.name = "fit_sell_order" /\ Closed(order))
        => (order' = order /\ calls' = << >>) ]_vars

C1_Witness ==
    /\ op.name = "fit_sell_order"
    /\ op.result = "skip_closed"
    /\ Closed(order)
    /\ calls = << >>

(* C2: once sell_type is 'win' or 'loss', no fit_buy_order or fit_sell_order
   call changes any field of the order. *)
C2_TerminalNeverMutated ==
    [][ (Closed(order) /\ op'.name \in {"fit_buy_order", "fit_sell_order"})
        => order' = order ]_vars

(* C3: order_deal = False implies every buy-side field is unset, and
   order_deal = True implies every buy-side field is set. *)
C3_BuySideAllOrNothing ==
    /\ ~order.order_deal => BuySideUnset(order)
    /\ order.order_deal => BuySideSet(order)

(* C4: if any sell-side field is set (sell_price, sell_date, or sell_type
   other than 'keep') then order_deal is True and sell_type is 'win' or
   'loss'. *)
C4_SellSideImpliesFilledAndClosed ==
    SellSideTouched(order) => (order.order_deal /\ Closed(order))

(* C5: a fit_buy_order call on an open order (order_deal already True)
   changes no buy-side field. *)
C5_NoDoubleFill ==
    [][ (Open(order) /\ op'.name = "fit_buy_order")
        => \A f \in BuyFields : order'[f] = order[f] ]_vars

(* C6: every order with order_deal = True has a positive buy_cnt that is, for
   an order filled by fit_buy_order, at least the minimum unit of the market;
   and a fit_buy_order whose rounded quantity is below that unit changes no
   field. *)
C6_FilledQuantityAtLeastMinUnit ==
    /\ [](order.order_deal =>
            /\ order.buy_cnt # None
            /\ order.buy_cnt[1] > 0
            /\ (order.buy_pos # None => order.buy_cnt[1] >= MinCnt(env.market)))
    /\ [][ (op'.name = "fit_buy_order" /\ op'.cnt # None /\ MarketKnown(env.market)
            /\ op'.cnt[1] < MinCnt(env.market))
           => order' = order ]_vars

(* C7: when the position sizer answers nan, fit_buy_order returns and leaves
   every field of the order as it was. *)
C7_SizerNanVeto ==
    [][ (op'.name = "fit_buy_order" /\ op'.bc = Some(NaN))
        => (op'.result = "veto_sizer" /\ order' = order) ]_vars

C7_Witness ==
    /\ op.name = "fit_buy_order"
    /\ op.result = "veto_sizer"
    /\ op.bc = Some(NaN)
    /\ order = EmptyOrder
    /\ calls = << "iloc", "slippage", "position", "fit_position" >>

(* C8: when the buy-side slippage answers +inf, fit_buy_order returns and
   leaves every field of the order as it was (an unfilled order stays
   unfilled); the witness is an order filled by a later call after such a
   veto. *)
C8_BuyInfVetoStaysEmpty ==
    [][ (op'.name = "fit_buy_order" /\ op'.bp = Some(Inf))
        => (op'.result = "veto_slippage" /\ order' = order) ]_vars

C8_Witness ==
    /\ "buy_veto_inf" \in trail
    /\ op.name = "fit_buy_order"
    /\ op.result = "filled"
    /\ order.order_deal
    /\ order.buy_price = op.bp
    /\ op.bp[1] < Inf

(* C9: when the sell-side slippage answers -inf, fit_sell_order leaves
   sell_type, sell_price, sell_date and sell_type_extra as they were; and a
   fit_sell_order on an open order whose sell factor says sell and whose
   slippage answers a price other than -inf closes the order at that price.
   The witness is an order closed by a later call after such a veto. *)
C9_SellNegInfVetoStaysOpen ==
    [][ /\ (op'.name = "fit_sell_order" /\ op'.sp = Some(NegInf))
           => /\ order'.sell_type = order.sell_type
              /\ order'.sell_price = order.sell_price
              /\ order'.sell_date = order.sell_date
              /\ order'.sell_type_extra = order.sell_type_extra
        /\ (op'.name = "fit_sell_order" /\ Open(order)
            /\ op'.sp # None /\ op'.sp # Some(NegInf))
           => (Closed(order') /\ order'.sell_price = op'.sp) ]_vars

C9_Witness ==
    /\ "sell_veto_neginf" \in trail
    /\ op.name = "fit_sell_order"
    /\ op.result = "closed"
    /\ Closed(order)
    /\ order.sell_price = op.sp

(* C10: when fit_sell_order closes an order, a 'call' order is a 'win' iff
   sell_price > buy_price and a 'put' order is a 'win' iff
   sell_price <= buy_price. *)
C10_WinLossRule ==
    [][ (op'.name = "fit_sell_order" /\ order.sell_type = "keep"
         /\ order'.sell_type # "keep")
        => /\ order'.buy_type_str = Some("call") =>
                (order'.sell_type = "win"
                   <=> order'.sell_price[1] > order'.buy_price[1])
           /\ order'.buy_type_str = Some("put") =>
                (order'.sell_type = "win"
                   <=> order'.sell_price[1] <= order'.buy_price[1])
           /\ order'.sell_type \in {"win", "loss"} ]_vars

C10_Witness ==
    /\ op.name = "fit_sell_order"
    /\ op.result = "closed"
    /\ order.buy_type_str = Some("call")
    /\ order.sell_price = order.buy_price
    /\ order.sell_type = "loss"

(* C11: when lot rounding in fit_buy_order meets a market outside the closed
   set, the call fails with an UnsupportedMarketError carrying the market and
   the order is left as it was. *)
C11_UnsupportedMarketError ==
    [][ (op'.name = "fit_buy_order" /\ ~MarketKnown(env.market)
         /\ calls' = << "iloc", "slippage", "position", "fit_position" >>
         /\ op'.result # "veto_sizer")
        => (op'.result = "raise_UnsupportedMarketError"
            /\ op'.market = Some(env.market) /\ order' = order) ]_vars

(* C11 as amended: when lot rounding in fit_buy_order meets a market outside
   the closed set, the call raises a TypeError that carries the market; the
   error leaves fit_buy_order and the order is left as it was. *)
C11_UnknownMarketRaisesTypeError ==
    [][ (op'.name = "fit_buy_order" /\ ~MarketKnown(env.market)
         /\ calls' = << "iloc", "slippage", "position", "fit_position" >>
         /\ op'.result # "veto_sizer")
        => (op'.result = "raise_TypeError"
            /\ op'.market = Some(env.market) /\ order' = order) ]_vars

C11_Witness ==
    /\ op.name = "fit_buy_order"
    /\ op.result = "raise_TypeError"
    /\ op.market = Some(UnknownMarket)
    /\ env.market = UnknownMarket
    /\ ~order.order_deal

(* C12: in every market other than crypto a filled quantity is floor(raw) for
   US and floor(raw) - (floor(raw) mod min_unit) elsewhere; it is a whole
   multiple of min_unit, does not exceed raw and is greater than
   raw - min_unit. *)
C12_LotRounding ==
    (op.name = "fit_buy_order" /\ op.result = "filled" /\ env.market # "TC")
    => LET raw == op.bc[1]
           fl == (raw \div QScale) * QScale
           unit == MinCnt(env.market)
           cnt == order.buy_cnt[1]
       IN  /\ env.market = "US" => cnt = fl
           /\ env.market # "US" => cnt = fl - (fl % unit)
           /\ cnt % unit = 0
           /\ cnt <= raw
           /\ cnt > raw - unit

C12_Witness ==
    /\ op.name = "fit_buy_order"
    /\ op.result = "filled"
    /\ env.market = "CN"
    /\ op.bc = Some(200 * QScale - 1)
    /\ order.buy_cnt = Some(100 * QScale)

(* C13: in the crypto market the filled quantity is the raw quantity floored
   to three decimal places, so it never exceeds the raw quantity. *)
C13_CryptoFloor ==
    (op.name = "fit_buy_order" /\ op.result = "filled" /\ env.market = "TC")
    => LET raw == op.bc[1]
           milli == QScale \div 1000
       IN  /\ order.buy_cnt[1] = (raw \div milli) * milli
           /\ order.buy_cnt[1] <= raw

(* C14: a fill lags the signal by one bar: fit_buy_order(day_ind) fills on
   the bar at day_ind + 1 and writes that bar's date to buy_date, and
   fit_sell_order(day_ind) prices the exit on the bar at day_ind + 1 and
   writes that bar's date to sell_date. *)
C14_OneBarLag ==
    /\ (op.name = "fit_buy_order" /\ op.result = "filled")
       => /\ op.bar = Some(op.day_ind[1] + 1)
          /\ order.buy_date = Some(BarDate(op.day_ind[1] + 1))
    /\ (op.name = "fit_sell_order" /\ op.result = "closed")
       => /\ op.bar = Some(op.day_ind[1] + 1)
          /\ order.sell_date = Some(BarDate(op.day_ind[1] + 1))

C14_Witness ==
    /\ op.name = "fit_sell_order"
    /\ op.result = "closed"
    /\ op.day_ind = Some(1)
    /\ order.sell_date = Some(BarDate(2))
    /\ order.buy_date = Some(BarDate(1))

(* C15: a fit_buy_order or fit_sell_order call, returning or raising, leaves
   the order untouched or with the whole phase written: all buy-side fields
   with order_deal, or sell_price, sell_date and a 'win'/'loss' sell_type. *)
C15_PhaseAllOrNothing ==
    [][ op'.name \in {"fit_buy_order", "fit_sell_order"}
        => \/ order' = order
           \/ op'.name = "fit_buy_order" /\ order'.order_deal /\ BuySideSet(order')
           \/ op'.name = "fit_sell_order" /\ Closed(order')
              /\ order'.sell_price # None /\ order'.sell_date # None ]_vars

(* C16: a fit_buy_order or fit_sell_order call with the last day index, where
   no bar exists at day_ind + 1, ends without an error and leaves the order
   as it was. *)
C16_LastDayIsBenign ==
    [][ (op'.name \in {"fit_buy_order", "fit_sell_order"}
         /\ op'.day_ind = Some(NumBars - 1))
        => (op'.result \notin {"raise_IndexError", "raise_TypeError",
                               "raise_ValueError"}
            /\ order' = order) ]_vars

(* C17: when the sell factor's make_sell_order answers no, fit_sell_order
   writes no field and does not consult the slippage class; and no
   fit_sell_order call changes keep_days or a buy-side field. *)
C17_SellFrame ==
    [][ op'.name = "fit_sell_order"
        => /\ op'.answer = Some(FALSE)
                => (order' = order /\ calls' = << "make_sell_order" >>)
           /\ order'.keep_days = order.keep_days
           /\ order'.order_deal = order.order_deal
           /\ \A f \in BuyFields : order'[f] = order[f] ]_vars

C17_Witness ==
    /\ op.name = "fit_sell_order"
    /\ op.result = "keep"
    /\ op.answer = Some(FALSE)
    /\ Open(order)
    /\ order.keep_days > 0
    /\ calls = << "make_sell_order" >>

----------------------------------------------------------------------------
(* PaperTradingEngine *)

(* Decimal division, rounded half-even at the resolution of the amounts *)
DecimalDiv(a, b) ==
    LET mag == IF a < 0 THEN 0 - a ELSE a
        quot == mag \div b
        r == mag % b
        near == IF 2 * r < b THEN quot
                ELSE IF 2 * r > b THEN quot + 1
                ELSE IF quot % 2 = 0 THEN quot ELSE quot + 1
    IN  IF a < 0 THEN 0 - near ELSE near

(* PaperTradingEngine._get_current_price_sync inside the running event
   loop, and _get_current_price of an engine without data feed or database *)
CurrentPrice == None

(* PaperTradingEngine._validate_order *)
PaperValidateOrder(eng, o) ==
    LET max_position_value ==
            (eng.balance \div 100) * eng.config.max_position_size
        priced == IF o.price # None THEN o.price ELSE CurrentPrice
        order_value == o.quantity * priced[1]
        estimated_cost ==
            order_value + (order_value * eng.config.commission) \div 1000
    IN  /\ ~(o.quantity <= 0)
        /\ priced # None
        /\ ~(order_value > max_position_value)
        /\ o.side = "buy" => ~(estimated_cost > eng.available_balance)
        /\ o.side = "sell" =>
               /\ eng.position # None
               /\ ~(eng.position[1].quantity < o.quantity)

(* PaperTradingEngine._get_execution_price *)
ExecutionPrice(eng, o) ==
    LET priced == IF o.price # None THEN o.price ELSE CurrentPrice
    IN  IF priced = None THEN None
        ELSE IF o.side = "buy"
             THEN Some((priced[1] \div 10000) * (10000 + eng.config.slippage))
             ELSE Some((priced[1] \div 10000) * (10000 - eng.config.slippage))

(* PaperTradingEngine._calculate_commission *)
CalculateCommission(eng, o, execution_price) ==
    (o.quantity * execution_price * eng.config.commission) \div 1000

(* a realized profit that forgets the entry price *)
RealizedPnlOfProceeds(price, entry_price, quantity) == price * quantity

RealizedPnl(price, entry_price, quantity) == (price - entry_price) * quantity

(* PaperTradingEngine._update_account_from_order, buy side *)
AccountAfterBuy(eng, quantity, price, commission) ==
    LET held == IF eng.position = None
                THEN [ quantity |-> 0, entry_price |-> 0,
                       current_price |-> price, market_value |-> 0,
                       unrealized_pnl |-> 0 ]
                ELSE eng.position[1]
        total_quantity == held.quantity + quantity
        total_cost == held.quantity * held.entry_price + quantity * price
        entry_price == DecimalDiv(total_cost, total_quantity)
    IN  [ eng EXCEPT
            !.available_balance = @ - (quantity * price + commission),
            !.position = Some([ quantity |-> total_quantity,
                                entry_price |-> entry_price,
                                current_price |-> price,
                                market_value |-> total_quantity * price,
                                unrealized_pnl |->
                                    (price - entry_price) * total_quantity ]) ]

(* PaperTradingEngine._update_account_from_order, sell side *)
AccountAfterSell(eng, quantity, price, commission) ==
    LET credited ==
            [ eng EXCEPT !.available_balance = @ + (quantity * price - commission) ]
    IN  IF eng.position = None THEN credited
        ELSE LET held == eng.position[1]
             IN  IF quantity >= held.quantity
                 THEN LET realized_pnl ==
                              RealizedPnl(price, held.entry_price, held.quantity)
                      IN  [ credited EXCEPT
                              !.total_pnl = @ + realized_pnl,
                              !.daily_pnl = @ + realized_pnl,
                              !.position = None ]
                 ELSE LET realized_pnl ==
                              RealizedPnl(price, held.entry_price, quantity)
                          left == held.quantity - quantity
                      IN  [ credited EXCEPT
                              !.total_pnl = @ + realized_pnl,
                              !.daily_pnl = @ + realized_pnl,
                              !.position = Some([ held EXCEPT
                                  !.quantity = left,
                                  !.market_value = left * price,
                                  !.unrealized_pnl =
                                      (price - held.entry_price) * left ]) ]

(* the events execute_order publishes for a filled order *)
FillEvents(eng, o) ==
    IF o.side = "sell" /\ eng.position # None
       /\ o.quantity >= eng.position[1].quantity
    THEN << "position_closed", "order_filled" >>
    ELSE << "order_filled" >>

(* PaperTradingEngine.execute_order up to its execution delay *)
PaperExecuteOrder ==
    \E side \in Sides, quantity \in OrderQuantities,
       price \in { Some(x) : x \in EnginePrices } \cup {None} :
        LET o == [ id |-> UnknownOrderId, symbol |-> PaperSymbol,
                   side |-> side, quantity |-> quantity, price |-> price,
                   status |-> "pending" ]
        IN  /\ paper.order_history + Len(paper_tasks) < MaxOrders
            /\ Len(paper_tasks) < MaxTasks
            /\ IF PaperValidateOrder(paper, o)
               THEN /\ paper_tasks' = Append(paper_tasks, o)
                    /\ paper_op' = [ PaperCall("execute_order", "sleeping")
                                       EXCEPT !.order = Some(o) ]
               ELSE /\ paper_tasks' = paper_tasks
                    /\ paper_op' = [ PaperCall("execute_order", "rejected")
                                       EXCEPT !.order = Some(o) ]
            /\ UNCHANGED << paper, outside_paper >>

(* PaperTradingEngine.execute_order from its execution delay on: the engine
   and the call record it leaves *)
PaperFill(eng, o) ==
    LET execution_price == ExecutionPrice(eng, o)
    IN  IF execution_price = None
        THEN [ engine |-> eng,
               op |-> [ PaperCall("execute_order", "rejected")
                          EXCEPT !.order = Some(o) ] ]
        ELSE LET price == execution_price[1]
                 commission == CalculateCommission(eng, o, price)
                 updated ==
                     IF o.side = "buy"
                     THEN AccountAfterBuy(eng, o.quantity, price, commission)
                     ELSE AccountAfterSell(eng, o.quantity, price, commission)
             IN  [ engine |-> [ updated EXCEPT !.order_history = @ + 1 ],
                   op |-> [ PaperCall("execute_order", "filled") EXCEPT
                              !.order = Some(o),
                              !.fill_price = execution_price,
                              !.events = FillEvents(eng, o) ] ]

PaperResume ==
    \E i \in 1 .. Len(paper_tasks) :
        LET o == paper_tasks[i]
            rest == SubSeq(paper_tasks, 1, i - 1)
                        \o SubSeq(paper_tasks, i + 1, Len(paper_tasks))
            fill == PaperFill(paper, o)
        IN  /\ paper_tasks' = rest
            /\ paper' = fill.engine
            /\ paper_op' = fill.op
            /\ UNCHANGED outside_paper

(* PaperTradingEngine._handle_ticker_update *)
PaperTickerUpdate ==
    \E price \in EnginePrices :
        /\ IF paper.position # None
           THEN LET held == paper.position[1]
                    unrealized == (price - held.entry_price) * held.quantity
                IN  paper' = [ paper EXCEPT
                        !.position = Some([ held EXCEPT
                            !.current_price = price,
                            !.market_value = held.quantity * price,
                            !.unrealized_pnl = unrealized ]),
                        !.unrealized_pnl = unrealized ]
           ELSE paper' = paper
        /\ paper_op' = PaperCall("ticker_update", "handled")
        /\ UNCHANGED << paper_tasks, outside_paper >>

(* PaperTradingEngine.reset_account *)
PaperResetAccount ==
    /\ paper' = PaperEngine(paper.config)
    /\ paper_op' = PaperCall("reset_account", "reset")
    /\ UNCHANGED << paper_tasks, outside_paper >>

PaperSpecInit ==
    /\ LaneIdle
    /\ DispatcherInit
    /\ paper \in { PaperEngine(c) : c \in PaperConfigs }
    /\ paper_tasks = << >>
    /\ paper_op = PaperCall("init", "constructed")
    /\ TradingInit
    /\ BacktestInit
    /\ StopsInit
    /\ StrategyInit
    /\ ManagerInit
    /\ RegistryInit

PaperNext ==
    \/ PaperExecuteOrder
    \/ PaperResume
    \/ PaperTickerUpdate
    \/ PaperResetAccount

PaperSpec == PaperSpecInit /\ [][PaperNext]_vars

----------------------------------------------------------------------------
(* TradingEngine *)

OpenPositions(eng) ==
    Cardinality({ sym \in Symbols : eng.positions[sym] # None })

(* TradingEngine._validate_order *)
TradingValidateOrder(eng, side, quantity, price) ==
    /\ side \in {"buy", "sell"}
    /\ ~(quantity <= 0)
    /\ price # None =>
           /\ ~(quantity * price[1] < eng.config.min_order_size)
           /\ ~(quantity * price[1] > eng.config.max_order_size)
    /\ ~(OpenPositions(eng) >= eng.config.max_open_positions)

(* the Order object the orders dictionary holds under an id *)
OrderKnown(eng, order_id) ==
    order_id \in OrderIds /\ eng.orders[order_id] # None

OrderOf(eng, order_id) == eng.objs[eng.orders[order_id][1]]

(* a cancel that only refuses what is already cancelled *)
CancellableUnlessCancelled(o) == o.status # "cancelled"

Cancellable(o) == ~(o.status # "pending")

AbsQ(x) == IF x < 0 THEN 0 - x ELSE x

(* the price _execute_live_order fills an order without price at *)
PlaceholderPrice == 100 * MScale

(* TradingEngine._update_positions_from_order of a filled order: the
   positions, the keys of the positions dictionary in its order, and the
   events published *)
UpdatePositionsFromOrder(eng, o, price) ==
    LET quantity == IF o.side = "buy" THEN o.quantity ELSE 0 - o.quantity
    IN  IF eng.positions[o.symbol] # None
        THEN LET held == eng.positions[o.symbol][1]
                 total_quantity == held.quantity + quantity
                 total_cost == held.quantity * held.entry_price + quantity * price
             IN  IF total_quantity = 0
                 THEN [ positions |-> [ eng.positions EXCEPT ![o.symbol] = None ],
                        keys |-> SelectSeq(eng.position_keys,
                                     LAMBDA k : k # o.symbol),
                        events |-> << "position_closed" >> ]
                 ELSE LET entry_price ==
                              DecimalDiv(total_cost, AbsQ(total_quantity))
                      IN  [ positions |-> [ eng.positions EXCEPT ![o.symbol] =
                                Some([ quantity |-> total_quantity,
                                       entry_price |-> entry_price,
                                       current_price |-> price,
                                       market_value |-> AbsQ(total_quantity) * price,
                                       unrealized_pnl |->
                                           (price - entry_price) * total_quantity ]) ],
                            keys |-> eng.position_keys,
                            events |-> << >> ]
        ELSE [ positions |-> [ eng.positions EXCEPT ![o.symbol] =
                   Some([ quantity |-> quantity,
                          entry_price |-> price,
                          current_price |-> price,
                          market_value |-> AbsQ(quantity) * price,
                          unrealized_pnl |-> 0 ]) ],
               keys |-> Append(eng.position_keys, o.symbol),
               events |-> << "position_opened" >> ]

(* TradingEngine.place_order up to the execution delay of the order *)
TradingPlaceOrder ==
    \E sym \in PlacedSymbols(trading.config),
       side \in Sides \cup {InvalidSide},
       quantity \in PlacedQuantities, price \in PlacedPrices :
        /\ trading_stopping = None
        /\ Len(trading.objs) < MaxPlaced
        /\ Cardinality(trading_tasks) < MaxTasks
        /\ IF ~TradingValidateOrder(trading, side, quantity, price)
           THEN /\ trading_op' = TradingCall("place_order", "done")
                /\ UNCHANGED << trading, trading_tasks >>
           ELSE LET o == [ id |-> clock, symbol |-> sym, side |-> side,
                           quantity |-> quantity, price |-> price,
                           status |-> "pending" ]
                    obj == Len(trading.objs) + 1
                    placed == [ trading EXCEPT
                                  !.objs = Append(@, o),
                                  !.orders[clock] = Some(obj) ]
                    suspended ==
                        [ TradingCall("place_order", "suspended") EXCEPT
                            !.order_id = Some(o.id),
                            !.events = << "order_placed" >> ]
                IN  IF trading.config.paper_trading
                    THEN IF PaperValidateOrder(paper, o)
                         THEN /\ trading' = placed
                              /\ trading_tasks' = trading_tasks \cup {obj}
                              /\ trading_op' = suspended
                         ELSE /\ trading' = [ placed EXCEPT
                                     !.objs[obj].status = "rejected" ]
                              /\ trading_op' =
                                     [ TradingCall("place_order", "done") EXCEPT
                                         !.returned = Some(o.id),
                                         !.order_id = Some(o.id),
                                         !.executed = Some(FALSE),
                                         !.events = << "order_placed" >> ]
                              /\ UNCHANGED trading_tasks
                    ELSE /\ trading' = placed
                         /\ trading_tasks' = trading_tasks \cup {obj}
                         /\ trading_op' = suspended
        /\ UNCHANGED << clock, paper_vars, trading_stopping, outside_trading >>

(* TradingEngine.place_order from the execution delay of the order on *)
TradingResume ==
    \E obj \in trading_tasks :
        LET o == trading.objs[obj]
            rest == trading_tasks \ {obj}
            done == [ TradingCall("place_order", "done") EXCEPT
                        !.returned = Some(o.id), !.order_id = Some(o.id) ]
        IN  /\ trading_tasks' = rest
            /\ IF trading.config.paper_trading
               THEN LET fill == PaperFill(paper, o)
                    IN  /\ paper' = fill.engine
                        /\ trading' = [ trading EXCEPT
                               !.objs[obj].status = fill.op.result ]
                        /\ trading_op' = [ done EXCEPT !.executed =
                               Some(fill.op.result = "filled") ]
               ELSE LET price == IF o.price # None THEN o.price[1]
                                 ELSE PlaceholderPrice
                        after == UpdatePositionsFromOrder(trading, o, price)
                    IN  /\ trading' = [ trading EXCEPT
                               !.objs[obj].status = "filled",
                               !.positions = after.positions,
                               !.position_keys = after.keys ]
                        /\ trading_op' = [ done EXCEPT !.events = after.events ]
                        /\ UNCHANGED paper
            /\ UNCHANGED << clock, paper_tasks, paper_op, trading_stopping, outside_trading >>

(* TradingEngine.cancel_order(order_id) *)
TradingCancelOrder ==
    \E order_id \in OrderIds \cup {UnknownOrderId} :
        /\ trading_stopping = None
        /\ IF ~OrderKnown(trading, order_id)
           THEN /\ trading' = trading
                /\ trading_op' = [ TradingCall("cancel_order", "done") EXCEPT
                       !.returned = Some(FALSE), !.order_id = Some(order_id) ]
           ELSE IF ~Cancellable(OrderOf(trading, order_id))
           THEN /\ trading' = trading
                /\ trading_op' = [ TradingCall("cancel_order", "done") EXCEPT
                       !.returned = Some(FALSE), !.order_id = Some(order_id) ]
           ELSE /\ trading' = [ trading EXCEPT
                       !.objs[trading.orders[order_id][1]].status = "cancelled" ]
                /\ trading_op' = [ TradingCall("cancel_order", "done") EXCEPT
                       !.returned = Some(TRUE), !.order_id = Some(order_id),
                       !.events = << "order_cancelled" >> ]
        /\ UNCHANGED << clock, trading_tasks, paper_vars, trading_stopping, outside_trading >>

(* TradingEngine.start *)
TradingStart ==
    /\ trading_stopping = None
    /\ IF trading.running
       THEN /\ trading_op' = TradingCall("start", "done")
            /\ UNCHANGED trading
       ELSE /\ trading' = [ trading EXCEPT !.running = TRUE ]
            /\ trading_op' = [ TradingCall("start", "done") EXCEPT
                   !.events = << "engine_started" >> ]
    /\ UNCHANGED << clock, trading_tasks, paper_vars, trading_stopping,
                    outside_trading >>

(* the side and quantity of the order _close_all_positions places for a
   position *)
ClosingSide(held) == IF held.quantity > 0 THEN "sell" ELSE "buy"

(* TradingEngine._close_all_positions over the keys still to visit: the
   keys from the first position on whose closing order place_order accepts,
   none when place_order returns None for each of them *)
RECURSIVE ClosableFrom(_, _)
ClosableFrom(eng, keys) ==
    IF keys = << >> THEN << >>
    ELSE LET held == eng.positions[Head(keys)][1]
         IN  IF /\ held.quantity # 0
                /\ TradingValidateOrder(eng, ClosingSide(held),
                       AbsQ(held.quantity), None)
             THEN keys
             ELSE ClosableFrom(eng, Tail(keys))

(* TradingEngine._close_all_positions from the keys still to visit up to
   the execution delay of the next closing order, or to its end. Positions
   exist in live trading only: in paper trading place_order leaves the
   positions dictionary empty *)
CloseAllPositions(eng, keys, events) ==
    LET closable == ClosableFrom(eng, keys)
    IN  IF closable = << >>
        THEN [ trading |-> eng, stopping |-> None,
               op |-> [ TradingCall("stop", "done") EXCEPT !.events = events ] ]
        ELSE LET held == eng.positions[Head(closable)][1]
                 o == [ id |-> clock, symbol |-> Head(closable),
                        side |-> ClosingSide(held),
                        quantity |-> AbsQ(held.quantity), price |-> None,
                        status |-> "pending" ]
                 obj == Len(eng.objs) + 1
             IN  [ trading |-> [ eng EXCEPT !.objs = Append(@, o),
                                            !.orders[clock] = Some(obj) ],
                   stopping |-> Some([ obj |-> obj, keys |-> Tail(closable),
                                       used |-> Len(eng.position_keys) ]),
                   op |-> [ TradingCall("stop", "suspended") EXCEPT
                              !.order_id = Some(o.id),
                              !.events = events \o << "order_placed" >> ] ]

(* TradingEngine.stop up to the execution delay of its first closing order,
   called while no place_order is suspended; nothing else is called on the
   engine until stop ends *)
TradingStop ==
    /\ trading_stopping = None
    /\ trading_tasks = {}
    /\ IF ~trading.running
       THEN /\ trading_op' = TradingCall("stop", "done")
            /\ UNCHANGED << trading, trading_stopping >>
       ELSE LET stopped == [ trading EXCEPT !.running = FALSE ]
                closing == CloseAllPositions(stopped, stopped.position_keys,
                               << "engine_stopped" >>)
            IN  /\ trading' = closing.trading
                /\ trading_stopping' = closing.stopping
                /\ trading_op' = closing.op
    /\ UNCHANGED << clock, trading_tasks, paper_vars, outside_trading >>

(* TradingEngine.stop from the execution delay of a closing order on: the
   order is filled at the placeholder price and the positions updated; the
   loop over self.positions.items() then raises RuntimeError out of stop
   when the dictionary changed size, and goes on otherwise *)
TradingStopResume ==
    /\ trading_stopping # None
    /\ LET at == trading_stopping[1]
           o == trading.objs[at.obj]
           after == UpdatePositionsFromOrder(trading, o, PlaceholderPrice)
           filled == [ trading EXCEPT !.objs[at.obj].status = "filled",
                                      !.positions = after.positions,
                                      !.position_keys = after.keys ]
       IN  IF Len(after.keys) # at.used
           THEN /\ trading' = filled
                /\ trading_stopping' = None
                /\ trading_op' = [ TradingCall("stop", "raised") EXCEPT
                       !.order_id = Some(o.id), !.events = after.events ]
           ELSE LET closing == CloseAllPositions(filled, at.keys, after.events)
                IN  /\ trading' = closing.trading
                    /\ trading_stopping' = closing.stopping
                    /\ trading_op' = closing.op
    /\ UNCHANGED << clock, trading_tasks, paper_vars, outside_trading >>

(* a millisecond passes: datetime.utcnow() of the next Order differs *)
ClockTick ==
    /\ clock < MaxClock
    /\ clock' = clock + 1
    /\ trading_op' = TradingCall("clock", "tick")
    /\ UNCHANGED << trading, trading_tasks, paper_vars, trading_stopping, outside_trading >>

TradingSpecInit ==
    /\ LaneIdle
    /\ DispatcherInit
    /\ PaperInit
    /\ trading \in { TradingEngine(c) : c \in TradingConfigs }
    /\ clock = 1
    /\ trading_tasks = {}
    /\ trading_stopping = None
    /\ trading_op = TradingCall("init", "constructed")
    /\ BacktestInit
    /\ StopsInit
    /\ StrategyInit
    /\ ManagerInit
    /\ RegistryInit

TradingNext ==
    \/ TradingPlaceOrder
    \/ TradingResume
    \/ TradingCancelOrder
    \/ TradingStart
    \/ TradingStop
    \/ TradingStopResume
    \/ ClockTick

TradingSpec == TradingSpecInit /\ [][TradingNext]_vars

----------------------------------------------------------------------------
(* BacktestingEngine *)

(* BacktestingEngine._get_current_price: the close at self.current_date *)
BacktestCurrentPrice(bt) == Some(ClosePrice(bt.current_date))

BacktestTrade(side, quantity, realized_pnl) ==
    [ side |-> side, quantity |-> quantity, realized_pnl |-> realized_pnl ]

(* the quantities buy and sell are called with: nothing checks their sign *)
BacktestQuantities == -1 .. MaxQuantity

(* BacktestingEngine.buy(symbol, quantity, price); total_cost_basis /
   total_quantity raises when the total quantity is zero, after cash and the
   position's quantity were written, and the except clause returns False *)
BacktestBuy ==
    \E quantity \in BacktestQuantities,
       price \in { Some(PriceStep * MScale), None } :
        LET bt == backtest
            priced == IF price = None THEN BacktestCurrentPrice(bt) ELSE price
            execution_price ==
                (priced[1] \div 10000) * (10000 + bt.config.slippage)
            cost == quantity * execution_price
            commission == (cost * bt.config.commission) \div 1000
            total_cost == cost + commission
            held == IF bt.position = None
                    THEN [ quantity |-> 0, avg_price |-> 0, unrealized_pnl |-> 0 ]
                    ELSE bt.position[1]
            total_quantity == held.quantity + quantity
            total_cost_basis ==
                held.quantity * held.avg_price + quantity * execution_price
        IN  /\ bt.result = None
            /\ bt.date <= EndDay
            /\ Len(bt.trades) < MaxTrades
            /\ IF total_cost > bt.cash
               THEN /\ backtest' = bt
                    /\ backtest_op' = BacktestCall("buy", "False")
               ELSE IF total_quantity = 0
               THEN /\ backtest' = [ bt EXCEPT
                           !.cash = @ - total_cost,
                           !.position = Some([ held EXCEPT !.quantity = 0 ]) ]
                    /\ backtest_op' = BacktestCall("buy", "False")
               ELSE /\ backtest' = [ bt EXCEPT
                           !.cash = @ - total_cost,
                           !.position = Some([ held EXCEPT
                               !.quantity = total_quantity,
                               !.avg_price =
                                   IF total_quantity < 0
                                   THEN DecimalDiv(0 - total_cost_basis,
                                                   0 - total_quantity)
                                   ELSE DecimalDiv(total_cost_basis,
                                                   total_quantity) ]),
                           !.trades = Append(@,
                               BacktestTrade("buy", quantity, None)) ]
                    /\ backtest_op' = BacktestCall("buy", "True")
            /\ UNCHANGED outside_backtest

(* BacktestingEngine.sell(symbol, quantity, price); quantity None, or zero,
   sells the whole position (quantity or position["quantity"]) *)
BacktestSell ==
    \E quantity \in { Some(q) : q \in BacktestQuantities } \cup {None},
       price \in { Some(PriceStep * MScale), None } :
        LET bt == backtest
        IN  /\ bt.result = None
            /\ bt.date <= EndDay
            /\ Len(bt.trades) < MaxTrades
            /\ IF bt.position = None \/ bt.position[1].quantity <= 0
               THEN /\ backtest' = bt
                    /\ backtest_op' = BacktestCall("sell", "False")
               ELSE LET held == bt.position[1]
                        sell_quantity ==
                            IF quantity = None \/ quantity[1] = 0
                            THEN held.quantity ELSE quantity[1]
                        priced == IF price = None THEN BacktestCurrentPrice(bt)
                                  ELSE price
                        execution_price ==
                            (priced[1] \div 10000) * (10000 - bt.config.slippage)
                        proceeds == sell_quantity * execution_price
                        commission == (proceeds * bt.config.commission) \div 1000
                        remaining_quantity == held.quantity - sell_quantity
                        realized_pnl ==
                            IF remaining_quantity <= 0
                            THEN (execution_price - held.avg_price) * held.quantity
                            ELSE (execution_price - held.avg_price) * sell_quantity
                    IN  IF sell_quantity > held.quantity
                        THEN /\ backtest' = bt
                             /\ backtest_op' = BacktestCall("sell", "False")
                        ELSE /\ backtest' = [ bt EXCEPT
                                    !.cash = @ + (proceeds - commission),
                                    !.position =
                                        IF remaining_quantity <= 0 THEN None
                                        ELSE Some([ held EXCEPT
                                            !.quantity = remaining_quantity ]),
                                    !.trades = Append(@,
                                        BacktestTrade("sell", sell_quantity,
                                                      Some(realized_pnl))) ]
                             /\ backtest_op' = BacktestCall("sell", "True")
            /\ UNCHANGED outside_backtest

(* BacktestingEngine.set_current_date(date) *)
BacktestSetCurrentDate ==
    \E day \in 0 .. EndDay :
        /\ backtest.result = None
        /\ backtest.date <= EndDay
        /\ backtest' = [ backtest EXCEPT !.current_date = day ]
        /\ backtest_op' = BacktestCall("set_current_date", "None")
        /\ UNCHANGED outside_backtest

(* the loop date of run_backtest after "move to next period", dates being
   counted in periods of the timeframe *)
NextPeriod(timeframe, date) ==
    IF timeframe = "1d" THEN date + 1
    ELSE IF timeframe = "1h" THEN date + 1
    ELSE IF timeframe = "1m" THEN date + 1
    ELSE date

(* the end of one turn of the run_backtest loop:
   BacktestingEngine._update_portfolio_value and the step to the next
   period *)
BacktestNextDay ==
    LET bt == backtest
        current_price == BacktestCurrentPrice(bt)[1]
    IN  /\ bt.result = None
        /\ bt.date <= EndDay
        /\ backtest' =
              IF bt.position = None
              THEN [ bt EXCEPT !.portfolio_value = bt.cash,
                               !.date = NextPeriod(bt.timeframe, @) ]
              ELSE LET held == bt.position[1]
                   IN  [ bt EXCEPT
                           !.portfolio_value =
                               bt.cash + held.quantity * current_price,
                           !.position = Some([ held EXCEPT !.unrealized_pnl =
                               (current_price - held.avg_price) * held.quantity ]),
                           !.date = NextPeriod(bt.timeframe, @) ]
        /\ backtest_op' = BacktestCall("run_backtest", "next_day")
        /\ UNCHANGED outside_backtest

(* total_trades of BacktestingEngine._calculate_results *)
CountedTrades(trades) ==
    Cardinality({ i \in 1 .. Len(trades) : trades[i].realized_pnl # None })

(* profitable_trades of BacktestingEngine._calculate_results *)
ProfitableTrades(trades) ==
    Cardinality({ i \in 1 .. Len(trades) :
                    /\ trades[i].realized_pnl # None
                    /\ trades[i].realized_pnl[1] > 0 })

(* the end of run_backtest: BacktestingEngine._calculate_results *)
BacktestCalculateResults ==
    /\ backtest.result = None
    /\ backtest.date > EndDay
    /\ backtest' = [ backtest EXCEPT !.result = Some(
           [ total_trades |-> CountedTrades(backtest.trades),
             profitable_trades |-> ProfitableTrades(backtest.trades),
             trades |-> backtest.trades,
             final_value |-> backtest.portfolio_value ]) ]
    /\ backtest_op' = BacktestCall("run_backtest", "returned")
    /\ UNCHANGED outside_backtest

BacktestSpecInit ==
    /\ LaneIdle
    /\ DispatcherInit
    /\ PaperInit
    /\ TradingInit
    /\ backtest \in { [ BacktestEngine(c) EXCEPT !.timeframe = tf ] :
                        c \in BacktestConfigs, tf \in Timeframes }
    /\ backtest_op = BacktestCall("init", "constructed")
    /\ StopsInit
    /\ StrategyInit
    /\ ManagerInit
    /\ RegistryInit

BacktestNext ==
    \/ BacktestBuy
    \/ BacktestSell
    \/ BacktestSetCurrentDate
    \/ BacktestNextDay
    \/ BacktestCalculateResults

BacktestSpec == BacktestSpecInit /\ [][BacktestNext]_vars

----------------------------------------------------------------------------
(* StopLossManager *)

(* price * (1 - fraction), the fraction in units of 1/MScale *)
Below(price, fraction) == (price \div MScale) * (MScale - fraction)

(* a trailing stop that follows the price down *)
TrailingStopFollowsPrice(current_stop, new_stop) == new_stop

(* max(current_stop, new_stop) *)
TrailingStop(current_stop, new_stop) ==
    IF new_stop > current_stop THEN new_stop ELSE current_stop

(* the stop loss StopLossManager.calculate_stop_loss computes *)
StopLossLevel(mgr, symbol, entry_price, current_price, atr) ==
    CASE mgr.config.stop_loss_type = "percentage" ->
             Below(entry_price, mgr.config.stop_loss_value)
      [] mgr.config.stop_loss_type = "absolute" -> mgr.config.stop_loss_value
      [] mgr.config.stop_loss_type = "atr" ->
             IF atr = None
             THEN Below(entry_price, mgr.config.stop_loss_value)
             ELSE entry_price - atr[1] * mgr.config.atr_multiplier
      [] OTHER ->
             IF mgr.stop_loss_levels[symbol] # None
             THEN TrailingStop(mgr.stop_loss_levels[symbol][1],
                               Below(current_price, mgr.config.trailing_percent))
             ELSE Below(current_price, mgr.config.trailing_percent)

(* StopLossManager.calculate_stop_loss, under the name it was called by *)
StopLossCalculated(name) ==
    \E symbol \in Symbols, entry_price \in StopPrices,
       current_price \in StopPrices, atr \in AtrValues :
        /\ IF ~stops.config.enable_stop_loss
           THEN /\ stops' = stops
                /\ stops_op' = StopCall(name, Some(symbol),
                                        Some(current_price), Some(0))
           ELSE LET stop_loss == StopLossLevel(stops, symbol, entry_price,
                                               current_price, atr)
                IN  /\ stops' = [ stops EXCEPT
                           !.stop_loss_levels[symbol] = Some(stop_loss) ]
                    /\ stops_op' = StopCall(name, Some(symbol),
                                            Some(current_price), Some(stop_loss))
        /\ UNCHANGED outside_stops

(* StopLossManager.calculate_stop_loss(symbol, entry_price, current_price, atr) *)
CalculateStopLoss == StopLossCalculated("calculate_stop_loss")

(* StopLossManager.update_stop_loss(symbol, entry_price, current_price, atr) *)
UpdateStopLoss == StopLossCalculated("update_stop_loss")

(* StopLossManager.check_stop_loss(symbol, current_price) *)
CheckStopLoss ==
    \E symbol \in Symbols, current_price \in StopPrices :
        /\ stops_op' = StopCall("check_stop_loss", Some(symbol),
               Some(current_price),
               Some(IF stops.stop_loss_levels[symbol] = None THEN FALSE
                    ELSE current_price <= stops.stop_loss_levels[symbol][1]))
        /\ UNCHANGED << stops, outside_stops >>

(* StopLossManager.remove_stop_loss(symbol) *)
RemoveStopLoss ==
    \E symbol \in Symbols :
        /\ stops' = [ stops EXCEPT !.stop_loss_levels[symbol] = None ]
        /\ stops_op' = StopCall("remove_stop_loss", Some(symbol), None, None)
        /\ UNCHANGED outside_stops

StopsSpecInit ==
    /\ LaneIdle
    /\ DispatcherInit
    /\ PaperInit
    /\ TradingInit
    /\ BacktestInit
    /\ stops \in { StopLossManager(c) : c \in StopLossConfigs }
    /\ stops_op = StopCall("init", None, None, None)
    /\ StrategyInit
    /\ ManagerInit
    /\ RegistryInit

StopsNext ==
    \/ CalculateStopLoss
    \/ UpdateStopLoss
    \/ CheckStopLoss
    \/ RemoveStopLoss

StopsSpec == StopsSpecInit /\ [][StopsNext]_vars

(* ------------------------------------------------------------------ *)
(* TrailingStopStrategy (core/strategies/sell_strategies.py) *)

(* BaseStrategy.validate_signal: the strategy is enabled, the side is buy
   or sell and the quantity is positive *)
ValidateSignal(st, signal) ==
    st.enabled /\ signal.side \in {"buy", "sell"} /\ signal.quantity > 0

(* TrailingStopStrategy.generate_signals(symbol, market_data, current_date,
   positions): in_positions says whether positions holds the symbol,
   position is positions[symbol] and current_price the last close *)
GenerateSignals ==
    \E symbol \in Symbols, in_positions \in BOOLEAN,
       position \in StrategyPositions, current_price \in StopPrices :
        LET levels == strategy.trailing_stops
            trailing_stop ==
                IF levels[symbol] = None
                THEN Below(position.entry_price, strategy.trailing_pct)
                ELSE TrailingStop(levels[symbol][1],
                         Below(current_price, strategy.trailing_pct))
            signal == [ symbol |-> symbol, side |-> "sell",
                        quantity |-> position.quantity,
                        price |-> current_price ]
            sells == current_price <= trailing_stop
                     /\ ValidateSignal(strategy, signal)
        IN
        /\ IF ~in_positions
            THEN /\ strategy' = [ strategy EXCEPT
                        !.trailing_stops[symbol] = None ]
                 /\ strategy_last' = [ strategy_last EXCEPT ![symbol] = None ]
                 /\ strategy_op' = StrategyCall("generate_signals",
                        Some(symbol), FALSE, << >>)
            ELSE IF position.entry_price <= 0 \/ position.quantity <= 0
            THEN /\ strategy_op' = StrategyCall("generate_signals",
                        Some(symbol), TRUE, << >>)
                 /\ UNCHANGED << strategy, strategy_last >>
            ELSE /\ strategy' = [ strategy EXCEPT
                        !.trailing_stops[symbol] =
                            IF sells THEN None ELSE Some(trailing_stop) ]
                 /\ strategy_last' = [ strategy_last EXCEPT
                        ![symbol] = Some(trailing_stop) ]
                 /\ strategy_op' = StrategyCall("generate_signals",
                        Some(symbol), TRUE,
                        IF sells THEN << signal >> ELSE << >>)
        /\ UNCHANGED outside_strategy

StrategySpecInit ==
    /\ LaneIdle
    /\ DispatcherInit
    /\ PaperInit
    /\ TradingInit
    /\ BacktestInit
    /\ StopsInit
    /\ strategy \in { TrailingStopStrategy(enabled) : enabled \in BOOLEAN }
    /\ strategy_last = [ sym \in Symbols |-> None ]
    /\ strategy_op = StrategyCall("init", None, FALSE, << >>)
    /\ ManagerInit
    /\ RegistryInit

StrategyNext == GenerateSignals

StrategySpec == StrategySpecInit /\ [][StrategyNext]_vars

(* ------------------------------------------------------------------ *)
(* PositionManager (core/risk/position_manager.py) *)

(* PositionManager.get_position_count: the positions of non-zero quantity *)
PositionCount(mgr) ==
    Cardinality({ sym \in Symbols :
                    /\ mgr.positions[sym] # None
                    /\ mgr.positions[sym][1].quantity # 0 })

(* PositionManager.can_open_position(symbol) *)
CanOpen(mgr, symbol) ==
    \/ mgr.positions[symbol] # None
    \/ ~(PositionCount(mgr) >= mgr.config.max_open_positions)

CanOpenPosition ==
    \E symbol \in Symbols :
        /\ manager_op' = ManagerCall("can_open_position", Some(symbol),
               Some(CanOpen(manager, symbol)))
        /\ UNCHANGED << manager, outside_manager >>

(* PositionManager.add_position(symbol, position), called right after a
   can_open_position(symbol) that returned True *)
AddPosition ==
    \E symbol \in Symbols, position \in ManagedPositions :
        /\ manager_op = ManagerCall("can_open_position", Some(symbol),
               Some(TRUE))
        /\ manager' = [ manager EXCEPT !.positions[symbol] = Some(position) ]
        /\ manager_op' = ManagerCall("add_position", Some(symbol), None)
        /\ UNCHANGED outside_manager

(* PositionManager.remove_position(symbol) *)
RemovePosition ==
    \E symbol \in Symbols :
        /\ manager' = [ manager EXCEPT !.positions[symbol] = None ]
        /\ manager_op' = ManagerCall("remove_position", Some(symbol),
               manager.positions[symbol])
        /\ UNCHANGED outside_manager

(* PositionManager.update_position_price(symbol, current_price) *)
UpdatePositionPrice ==
    \E symbol \in Symbols, current_price \in EnginePrices :
        /\ IF manager.positions[symbol] # None
           THEN LET held == manager.positions[symbol][1]
                IN  manager' = [ manager EXCEPT !.positions[symbol] =
                        Some([ held EXCEPT
                            !.current_price = current_price,
                            !.market_value = held.quantity * current_price,
                            !.unrealized_pnl =
                                (current_price - held.entry_price)
                                    * held.quantity ]) ]
           ELSE manager' = manager
        /\ manager_op' = ManagerCall("update_position_price", Some(symbol),
               None)
        /\ UNCHANGED outside_manager

ManagerSpecInit ==
    /\ LaneIdle
    /\ DispatcherInit
    /\ PaperInit
    /\ TradingInit
    /\ BacktestInit
    /\ StopsInit
    /\ StrategyInit
    /\ manager \in { PositionManager(c) : c \in PositionConfigs }
    /\ manager_op = ManagerCall("init", None, None)
    /\ RegistryInit

ManagerNext ==
    \/ CanOpenPosition
    \/ AddPosition
    \/ RemovePosition
    \/ UpdatePositionPrice

ManagerSpec == ManagerSpecInit /\ [][ManagerNext]_vars

(* ------------------------------------------------------------------ *)
(* StrategyRegistry (core/strategies/strategy_registry.py) *)

(* StrategyRegistry.register(name, strategy_class), called directly or as a
   decorator: name defaults to the class name *)
RegistryRegister ==
    \E name \in GivenNames \cup { None }, strategy_class \in StrategyClasses :
        LET strategy_name ==
                IF name = None THEN << strategy_class >> ELSE name
        IN  /\ registry' = [ registry EXCEPT
                   !._strategies[strategy_name] = Some(strategy_class) ]
            /\ registry_op' = RegistryCall("register", Some(strategy_name),
                   Some(strategy_class), None)
            /\ UNCHANGED outside_registry

(* StrategyRegistry.get(name, **kwargs) *)
RegistryGet ==
    \E name \in RegistryNames, kwargs \in RegistryKwargs :
        /\ IF registry._strategies[name] = None
           THEN /\ registry' = registry
                /\ registry_op' =
                       RegistryCall("get", Some(name), None, Some("KeyError"))
           ELSE LET cache_key == CacheKey(name, kwargs)
                    instances ==
                        IF registry._instances[cache_key] = None
                               \/ kwargs # {}
                        THEN [ registry._instances EXCEPT ![cache_key] =
                                 Some(StrategyInstance(
                                     registry._strategies[name][1],
                                     name, kwargs)) ]
                        ELSE registry._instances
                IN  /\ registry' = [ registry EXCEPT !._instances = instances ]
                    /\ registry_op' = RegistryCall("get", Some(name),
                           instances[cache_key], None)
        /\ UNCHANGED outside_registry

(* StrategyRegistry.unregister(name) *)
RegistryUnregister ==
    \E name \in RegistryNames :
        /\ registry' = [ registry EXCEPT
               !._strategies[name] = None,
               !._instances = [ k \in CacheKeys |->
                   IF StartsWith(k, name) THEN None
                   ELSE registry._instances[k] ] ]
        /\ registry_op' = RegistryCall("unregister", Some(name), None, None)
        /\ UNCHANGED outside_registry

(* StrategyRegistry.clear() *)
RegistryClear ==
    /\ registry' = [ _strategies |-> [ n \in RegistryNames |-> None ],
                     _instances |-> [ k \in CacheKeys |-> None ] ]
    /\ registry_op' = RegistryCall("clear", None, None, None)
    /\ UNCHANGED outside_registry

RegistrySpecInit ==
    /\ LaneIdle
    /\ DispatcherInit
    /\ PaperInit
    /\ TradingInit
    /\ BacktestInit
    /\ StopsInit
    /\ StrategyInit
    /\ ManagerInit
    /\ RegistryInit

RegistryNext ==
    \/ RegistryRegister
    \/ RegistryGet
    \/ RegistryUnregister
    \/ RegistryClear

RegistrySpec == RegistrySpecInit /\ [][RegistryNext]_vars

(* C18: the handlers subscribed to an event's type are invoked in
   non-increasing order of priority, in whatever order they subscribed. *)
C18_PriorityOrder ==
    \A i, j \in 1 .. Len(invoked) :
        (i < j /\ invoked[i].kind = "sync" /\ invoked[j].kind = "sync")
        => invoked[i].priority >= invoked[j].priority

C18_Witness ==
    /\ Len(invoked) >= 2
    /\ processed = Some("ticker_update")
    /\ invoked[1].kind = "sync" /\ invoked[2].kind = "sync"
    /\ invoked[1].priority > invoked[2].priority
    /\ invoked[1].callback # invoked[2].callback

(* C19: with zero slippage, a sell of q out of a position of Q held at entry
   price e, filled at the order's price p, leaves Q - q at the same entry
   price when q < Q, removes the position when q = Q, and adds exactly
   (p - e) * q to total_pnl. *)
C19_SellRealizesPnl ==
    [][ ( /\ paper_op'.name = "execute_order"
          /\ paper_op'.result = "filled"
          /\ paper_op'.order[1].side = "sell"
          /\ paper.config.slippage = 0
          /\ paper.position # None
          /\ paper_op'.order[1].quantity <= paper.position[1].quantity )
        => LET q == paper_op'.order[1].quantity
               p == paper_op'.order[1].price[1]
               held == paper.position[1]
           IN  /\ q < held.quantity =>
                      /\ paper'.position # None
                      /\ paper'.position[1].quantity = held.quantity - q
                      /\ paper'.position[1].entry_price = held.entry_price
               /\ q = held.quantity => paper'.position = None
               /\ paper'.total_pnl
                      = paper.total_pnl + (p - held.entry_price) * q ]_vars

C19_Witness ==
    /\ paper_op.name = "execute_order"
    /\ paper_op.result = "filled"
    /\ paper_op.order[1].side = "sell"
    /\ paper.config.slippage = 0
    /\ paper.position # None
    /\ paper.position[1].quantity = 1
    /\ paper.total_pnl > 0

(* C20: cancel_order returns True and sets the order's status to
   'cancelled' exactly when the id is known and the order is pending; in
   every other case it returns False, changes no order and publishes no
   ORDER_CANCELLED event. *)
C20_CancelOnlyPending ==
    [][ trading_op'.name = "cancel_order"
        => LET order_id == trading_op'.order_id[1]
               pending == /\ OrderKnown(trading, order_id)
                          /\ OrderOf(trading, order_id).status = "pending"
           IN  /\ trading_op'.returned = Some(pending)
               /\ pending =>
                      /\ OrderOf(trading', order_id).status = "cancelled"
                      /\ trading_op'.events = << "order_cancelled" >>
               /\ ~pending =>
                      /\ trading'.objs = trading.objs
                      /\ trading'.orders = trading.orders
                      /\ trading_op'.events = << >> ]_vars

C20_Witness ==
    /\ trading_op.name = "cancel_order"
    /\ trading_op.returned = Some(TRUE)
    /\ OrderKnown(trading, trading_op.order_id[1])
    /\ OrderOf(trading, trading_op.order_id[1]).status = "cancelled"
    /\ \E obj \in 1 .. Len(trading.objs) : trading.objs[obj].status = "filled"

(* C21: a place_order call returns an order id exactly when the order passed
   validation and was executed; when validation fails or the paper engine
   rejects the order (execute_order returns False) it returns None. *)
C21_PlaceOrderResult ==
    [][ (trading_op'.name = "place_order" /\ trading_op'.result = "done")
        => ( trading_op'.returned # None
             <=> /\ trading_op'.order_id # None
                 /\ trading_op'.executed # Some(FALSE) ) ]_vars

(* C22: however place_order calls interleave, the number of symbols with an
   open position in the trading engine never exceeds max_open_positions. *)
C22_MaxOpenPositions ==
    OpenPositions(trading) <= trading.config.max_open_positions

(* C23: total_trades counts every executed trade, buys and sells alike:
   after a backtest with exactly one buy and no sell, total_trades is 1 and
   equals the number of trades in the result. *)
C23_TotalTradesCountsAll ==
    ( /\ backtest.result # None
      /\ Len(backtest.trades) = 1
      /\ backtest.trades[1].side = "buy" )
    => /\ backtest.result[1].total_trades = 1
       /\ backtest.result[1].total_trades = Len(backtest.result[1].trades)

(* C24: with stop_loss_type TRAILING, a calculate_stop_loss or
   update_stop_loss call never lowers the stop level stored for a symbol,
   whatever current price it is given; only remove_stop_loss drops it. *)
C24_TrailingStopNeverDecreases ==
    [][ ( /\ stops.config.stop_loss_type = "trailing"
          /\ stops_op'.name \in {"calculate_stop_loss", "update_stop_loss"} )
        => \A sym \in Symbols :
               stops.stop_loss_levels[sym] # None
               => /\ stops'.stop_loss_levels[sym] # None
                  /\ stops'.stop_loss_levels[sym][1]
                         >= stops.stop_loss_levels[sym][1] ]_vars

C24_Witness ==
    /\ stops.config.stop_loss_type = "trailing"
    /\ stops_op.name = "update_stop_loss"
    /\ stops.stop_loss_levels[stops_op.symbol[1]] = stops_op.returned
    /\ stops_op.returned[1]
           > Below(stops_op.current_price[1], stops.config.trailing_percent)

(* C25: for as long as a symbol stays in the positions passed to
   generate_signals, the trailing stop level the strategy tracks for it
   never moves down from one generate_signals call to the next. *)
C25_TrailingLevelNeverDown ==
    [][ \A sym \in Symbols :
            ( /\ strategy_op'.name = "generate_signals"
              /\ strategy_op'.symbol = Some(sym)
              /\ strategy_op'.in_positions
              /\ strategy_last[sym] # None
              /\ strategy_last'[sym] # None )
            => strategy_last'[sym][1] >= strategy_last[sym][1] ]_vars

(* C26: after stop() returns on a running engine, no position remains
   open. *)
C26_StopClosesAllPositions ==
    [][ ( /\ trading_op'.name = "stop"
          /\ trading_op'.result = "done"
          /\ (trading.running \/ trading_stopping # None) )
        => OpenPositions(trading') = 0 ]_vars

(* C27: fit_buy_order runs its vetoes in the order slippage, sizer, market
   lot rounding, minimum lot: when the slippage answers +inf the position
   sizer is neither constructed nor called; when the sizer answers nan no
   lot unit is looked up and no market is rejected; and the error for an
   unrecognized market is raised only after both collaborators were called
   and neither vetoed. *)
C27_VetoOrder ==
    [][ op'.name = "fit_buy_order"
        => /\ op'.bp = Some(Inf) =>
                  /\ op'.result = "veto_slippage"
                  /\ calls' = << "iloc", "slippage" >>
           /\ op'.bc = Some(NaN) =>
                  /\ op'.result = "veto_sizer"
                  /\ calls' = << "iloc", "slippage", "position", "fit_position" >>
           /\ op'.result = UnsupportedMarketResult =>
                  /\ ~MarketKnown(env.market)
                  /\ calls' = << "iloc", "slippage", "position", "fit_position" >>
           /\ (\E i \in 1 .. Len(calls') : calls'[i] = "query_unit") =>
                  op'.result \in {"veto_min_lot", "filled"} ]_vars

C27_Witness ==
    /\ op.name = "fit_buy_order"
    /\ op.result = "veto_slippage"
    /\ op.bp = Some(Inf)
    /\ env.market = UnknownMarket
    /\ calls = << "iloc", "slippage" >>

(* C28: every event publish() put on the queue of a running dispatcher is
   eventually delivered to the handlers of its type, also when stop() is
   called while it is still queued. *)
C28_QueuedEventsDelivered ==
    \A t \in EventTypes :
        (\E i \in 1 .. Len(event_queue) : event_queue[i] = t)
            ~> (processed = Some(t))

(* C29: the available balance of the paper trading engine is never
   negative, whatever the configuration and however execute_order calls
   interleave. *)
C29_BalanceNeverNegative == paper.available_balance >= 0

(* C30: however execute_order calls interleave, the paper trading engine
   fills a sell (and credits its proceeds) only for a quantity it holds, so
   that the sells filled never exceed the buys filled, and no position has
   a negative quantity. *)
C30_SellsOnlyWhatIsHeld ==
    [][ /\ ( /\ paper_op'.name = "execute_order"
             /\ paper_op'.result = "filled"
             /\ paper_op'.order[1].side = "sell" )
           => /\ paper.position # None
              /\ paper.position[1].quantity >= paper_op'.order[1].quantity
        /\ paper'.position # None => paper'.position[1].quantity >= 0 ]_vars

(* C31: an order that cancel_order has set to 'cancelled' is never filled
   afterwards: however cancel_order interleaves with a place_order that is
   suspended in its execution delay, the order's status stays 'cancelled'
   and it changes no position and no balance. *)
C31_CancelledNeverFilled ==
    [][ \A obj \in 1 .. Len(trading.objs) :
            ( /\ trading.objs[obj].status = "cancelled"
              /\ obj \in trading_tasks
              /\ obj \notin trading_tasks' )
            => /\ trading'.objs[obj].status = "cancelled"
               /\ trading'.positions = trading.positions
               /\ paper' = paper ]_vars

(* C32: any two orders created through place_order have distinct ids, so
   every placed order is held by engine.orders under its own id and is
   never overwritten by a later order. *)
C32_OrderIdsDistinct ==
    \A i, j \in 1 .. Len(trading.objs) :
        /\ i # j => trading.objs[i].id # trading.objs[j].id
        /\ trading.orders[trading.objs[i].id] = Some(i)

(* C33: in the paper trading engine the value of the position held
   (quantity times entry price) never exceeds balance * max_position_size,
   after any sequence of filled buy orders. *)
C33_PositionWithinMaxSize ==
    paper.position # None =>
        paper.position[1].quantity * paper.position[1].entry_price
            <= (paper.balance \div 100) * paper.config.max_position_size

(* C34: in the backtesting engine cash is never negative and no position
   has a negative or zero quantity, after any sequence of buy and sell
   calls; and a buy or sell that returns False leaves cash, positions and
   the trades list as they were. *)
C34_CashAndQuantitiesPositive ==
    [][ /\ backtest'.cash >= 0
        /\ backtest'.position # None => backtest'.position[1].quantity > 0
        /\ ( /\ backtest_op'.name \in {"buy", "sell"}
             /\ backtest_op'.result = "False" )
           => /\ backtest'.cash = backtest.cash
              /\ backtest'.position = backtest.position
              /\ backtest'.trades = backtest.trades ]_vars

(* C35: at every step of run_backtest at which the strategy function is
   called with a date, the engine's current date equals that date: each
   turn of the loop begins with current_date at the loop date. *)
C35_CurrentDateFollowsLoop ==
    [][ ( /\ backtest_op'.name = "run_backtest"
          /\ backtest_op'.result = "next_day"
          /\ backtest'.date <= EndDay )
        => backtest'.current_date = backtest'.date ]_vars

(* C36: run_backtest terminates for every value of the Timeframe
   enumeration: the loop date strictly advances on every turn of the
   loop. *)
C36_LoopDateAdvances ==
    [][ ( /\ backtest_op'.name = "run_backtest"
          /\ backtest_op'.result = "next_day" )
        => backtest'.date > backtest.date ]_vars

(* C37: when every add_position(symbol, position) follows a
   can_open_position(symbol) that returned True, get_position_count() never
   exceeds max_open_positions, whatever add_position, remove_position and
   update_position_price calls are made. *)
C37_PositionCountWithinLimit ==
    PositionCount(manager) <= manager.config.max_open_positions

(* C38: after any register, unregister, clear and get calls, get(name)
   raises KeyError exactly when name is not registered, and otherwise
   returns an instance of the class now registered under name, never an
   instance of a class registered under it before. *)
C38_GetReturnsRegisteredClass ==
    registry_op.name = "get" =>
        LET registered == registry._strategies[registry_op.strategy[1]]
        IN  /\ registry_op.raised = Some("KeyError") <=> registered = None
            /\ registry_op.raised = None =>
                   registry_op.returned[1].class = registered[1]

(* C39: an exception raised by one handler keeps no other handler
   subscribed to the event from being invoked, does not leave publish, and
   does not end the processing loop. *)
C39_HandlerExceptionContained ==
    /\ invoked = dispatch.subscribed
    /\ dispatch.raised = None
    /\ ~dispatch.loop_ended

C39_Witness ==
    /\ dispatch.via = "loop"
    /\ processed = Some("ticker_update")
    /\ Len(invoked) = 2
    /\ invoked[1].kind = "sync"
    /\ invoked[1].callback \in RaisingCallbacks
    /\ invoked[2].callback \notin RaisingCallbacks

====
